---------------------------- MODULE Spec2Model ----------------------------
(***************************************************************************)
(* tf-dialect: the validation rule engine (validator.ts) and the template  *)
(* generator (generator.ts), run against a policy document (config.ts),    *)
(* and the server that loads the policy and answers requests (index.ts).   *)
(*                                                                         *)
(* Text is a sequence of one-character strings, so that the regular        *)
(* expressions of the source are modelled by what they match.  A position  *)
(* p of a sequence is the JavaScript index p - 1.                          *)
(***************************************************************************)
EXTENDS Integers, Sequences, FiniteSets, TLC

VARIABLES
    pc,       \* where the run is: "ready", then the operation that was applied
    config,   \* the policy document (TerraformStyleConfig)
    code,     \* the text handed to validateSnippet
    params,   \* the request handed to generateResource
    result,   \* what the last operation produced
    files,    \* the candidate policy files on disk, in lookup order
    request,  \* the tools/call request being handled
    transport \* the requests answered so far, each with its response

vars == <<pc, config, code, params, result, files, request, transport>>

(***************************************************************************)
(* Characters and literal helpers.                                         *)
(***************************************************************************)

\* \s of a JavaScript regular expression, over the characters of the model.
IsSpace(c) == c \in {" ", "\t", "\n", "\r", "\f"}

UpperToLower ==
    ("A" :> "a") @@ ("B" :> "b") @@ ("C" :> "c") @@ ("D" :> "d") @@ ("E" :> "e") @@
    ("F" :> "f") @@ ("G" :> "g") @@ ("H" :> "h") @@ ("I" :> "i") @@ ("J" :> "j") @@
    ("K" :> "k") @@ ("L" :> "l") @@ ("M" :> "m") @@ ("N" :> "n") @@ ("O" :> "o") @@
    ("P" :> "p") @@ ("Q" :> "q") @@ ("R" :> "r") @@ ("S" :> "s") @@ ("T" :> "t") @@
    ("U" :> "u") @@ ("V" :> "v") @@ ("W" :> "w") @@ ("X" :> "x") @@ ("Y" :> "y") @@
    ("Z" :> "z")

\* Canonical form of a character under the i flag.
Fold(c) == IF c \in DOMAIN UpperToLower THEN UpperToLower[c] ELSE c

\* The literal lit occurs in s at position p (flag i when ci).
LitAt(s, p, lit, ci) ==
    /\ p >= 1
    /\ p + Len(lit) - 1 <= Len(s)
    /\ \A k \in 1..Len(lit) :
          IF ci THEN Fold(s[p + k - 1]) = Fold(lit[k]) ELSE s[p + k - 1] = lit[k]

\* \s* from position p: the first position at or after p that holds no space.
RECURSIVE SkipSpaces(_, _)
SkipSpaces(s, p) ==
    IF p <= Len(s) /\ IsSpace(s[p]) THEN SkipSpaces(s, p + 1) ELSE p

\* The leftmost of a set of positions, or 0 when there is none.
Leftmost(ps) == IF ps = {} THEN 0 ELSE CHOOSE q \in ps : \A r \in ps : q <= r

\* The first position q >= p with s[q] \in cs, or 0.
FindChar(s, p, cs) == Leftmost({q \in p..Len(s) : s[q] \in cs})

\* The first position q >= p where the literal occurs, or 0.
FindLit(s, p, lit, ci) ==
    Leftmost({q \in p..(Len(s) - Len(lit) + 1) : LitAt(s, q, lit, ci)})

\* Array.prototype.join.
RECURSIVE Join(_, _)
Join(parts, sep) ==
    IF parts = <<>> THEN <<>>
    ELSE IF Len(parts) = 1 THEN parts[1]
    ELSE parts[1] \o sep \o Join(Tail(parts), sep)

\* How many positions of s hold the character c.
CountChar(s, c) == Cardinality({k \in 1..Len(s) : s[k] = c})

\* getLineNumber(code, index): code.substring(0, index).split('\n').length
getLineNumber(s, index) == CountChar(SubSeq(s, 1, index), "\n") + 1

(***************************************************************************)
(* Violations.  line is <<>> for null and <<n>> for the line number n.     *)
(***************************************************************************)

Violation(ruleId, severity, message, line, suggestion) ==
    [ruleId |-> ruleId, severity |-> severity, message |-> message,
     line |-> line, suggestion |-> suggestion]

(***************************************************************************)
(* validateRequiredTags                                                    *)
(***************************************************************************)

\* A variant of TagsBlockAt without the closing \}: /tags\s*=\s*\{([^}]*)/s.
TagsBlockAt_Unclosed(s, p) ==
    IF ~LitAt(s, p, <<"t", "a", "g", "s">> (* tags *), FALSE) THEN <<>>
    ELSE LET eq == SkipSpaces(s, p + 4) IN
         IF ~LitAt(s, eq, <<"=">>, FALSE) THEN <<>>
         ELSE LET open == SkipSpaces(s, eq + 1) IN
              IF ~LitAt(s, open, <<"{">>, FALSE) THEN <<>>
              ELSE LET close == FindChar(s, open + 1, {"}"})
                       stop == IF close = 0 THEN Len(s) + 1 ELSE close
                   IN  <<[index |-> p - 1, content |-> SubSeq(s, open + 1, stop - 1)]>>

\* /tags\s*=\s*\{([^}]*)\}/s attempted at position p: [index, content] in a
\* one-element sequence, or <<>> when the expression does not match there.
TagsBlockAt(s, p) ==
    IF ~LitAt(s, p, <<"t", "a", "g", "s">> (* tags *), FALSE) THEN <<>>
    ELSE LET eq == SkipSpaces(s, p + 4) IN
         IF ~LitAt(s, eq, <<"=">>, FALSE) THEN <<>>
         ELSE LET open == SkipSpaces(s, eq + 1) IN
              IF ~LitAt(s, open, <<"{">>, FALSE) THEN <<>>
              ELSE LET close == FindChar(s, open + 1, {"}"}) IN
                   IF close = 0 THEN <<>>
                   ELSE <<[index |-> p - 1,
                           content |-> SubSeq(s, open + 1, close - 1)]>>

\* code.match(/tags\s*=\s*\{([^}]*)\}/s): the leftmost match.
TagsBlockMatch(s) ==
    LET p == Leftmost({q \in 1..Len(s) : TagsBlockAt(s, q) # <<>>}) IN
    IF p = 0 THEN <<>> ELSE TagsBlockAt(s, p)

\* new RegExp(`["']?${tag}["']?\\s*=`, 'i') attempted at position p.  The
\* tag is built of letters, digits and '_', which stand for themselves in a
\* regular expression.
TagPatternAt(s, p, tag) ==
    LET From(q) ==
            /\ LitAt(s, q, tag, TRUE)
            /\ LET r == q + Len(tag)
                   u == IF r <= Len(s) /\ s[r] \in {"\"", "'"} THEN r + 1 ELSE r
               IN  \/ LitAt(s, SkipSpaces(s, u), <<"=">>, FALSE)
                   \/ LitAt(s, SkipSpaces(s, r), <<"=">>, FALSE)
    IN  \/ (p <= Len(s) /\ s[p] \in {"\"", "'"} /\ From(p + 1))
        \/ From(p)

\* tagPattern.test(tagsContent)
TagPatternTest(s, tag) == \E p \in 1..Len(s) : TagPatternAt(s, p, tag)

validateRequiredTags(c, cfg) ==
    LET requiredTags == cfg.required_tags
        m == TagsBlockMatch(c)
    IN  IF requiredTags = <<>> THEN <<>>
        ELSE IF m = <<>> THEN
            <<Violation("missing_tags_block", "error", <<"N", "o", " ", "t", "a", "g", "s", " ",
                "b", "l", "o", "c", "k", " ", "f", "o", "u", "n",
                "d">> (* No tags block found *), <<>>,
                        <<"A", "d", "d", " ", "a", " ", "t", "a", "g", "s", " ", "b", "l", "o",
                            "c", "k", " ", "w", "i", "t", "h", " ", "r", "e", "q", "u", "i", "r",
                            "e", "d", " ", "t", "a", "g", "s", ":",
                            " ">> (* Add a tags block with required tags:  *)
                            \o Join(requiredTags, <<",", " ">>))>>
        ELSE LET tagsContent == m[1].content
                 missingTags ==
                     SelectSeq(requiredTags,
                               LAMBDA tag : ~TagPatternTest(tagsContent, tag))
             IN  IF missingTags = <<>> THEN <<>>
                 ELSE <<Violation("required_tag_missing", "error",
                            <<"M", "i", "s", "s", "i", "n", "g", " ", "r", "e", "q", "u", "i", "r",
                                "e", "d", " ", "t", "a", "g", "s", ":",
                                " ">> (* Missing required tags:  *) \o Join(missingTags, <<",",
                                " ">>),
                            <<getLineNumber(c, m[1].index)>>,
                            <<"A", "d", "d", " ", "t", "h", "e", " ", "f", "o", "l", "l", "o", "w",
                                "i", "n", "g", " ", "t", "a", "g", "s", ":",
                                " ">> (* Add the following tags:  *)
                                \o Join([k \in 1..Len(missingTags) |->
                                            missingTags[k] \o <<" ", "=", " ", "\"", ".", ".", ".",
                                                "\"">> (*  = \"...\" *)], <<",", " ">>))>>

(***************************************************************************)
(* validateForbiddenPatterns.  A pattern's match source is compiled by     *)
(* new RegExp(match, 'g').  The sources of the model are written in this   *)
(* part of the regular-expression syntax: a character other than '*', '('  *)
(* and ')' matches itself, '*' after a character repeats it greedily,      *)
(* a '*' with nothing to repeat and a '(' that no ')' closes are           *)
(* SyntaxErrors.                                                           *)
(***************************************************************************)

\* The atoms of src from position p on, after the atoms acc: <<atoms>>, or
\* <<>> for a SyntaxError.
RECURSIVE ParseAtoms(_, _, _)
ParseAtoms(src, p, acc) ==
    IF p > Len(src) THEN <<acc>>
    ELSE IF src[p] = "*" THEN <<>>                      \* Nothing to repeat
    ELSE IF src[p] = "(" THEN <<>>                      \* Unterminated group
    ELSE IF src[p] = ")" THEN <<>>                      \* Unmatched ')'
    ELSE IF p < Len(src) /\ src[p + 1] = "*"
         THEN ParseAtoms(src, p + 2, Append(acc, [ch |-> src[p], star |-> TRUE]))
         ELSE ParseAtoms(src, p + 1, Append(acc, [ch |-> src[p], star |-> FALSE]))

\* new RegExp(src, 'g'): <<atoms>>, or <<>> when the constructor throws.
Compile(src) == ParseAtoms(src, 1, <<>>)

\* How many copies of ch the text holds from position p on.
RECURSIVE RunLength(_, _, _)
RunLength(s, p, ch) ==
    IF p <= Len(s) /\ s[p] = ch THEN 1 + RunLength(s, p + 1, ch) ELSE 0

\* The backtracking matcher: the position after the match of atoms k.. that
\* starts at position p, or 0.  A starred atom takes the longest run first
\* and gives copies back (TryStar) while the rest fails.
RECURSIVE MatchEnd(_, _, _, _)
RECURSIVE TryStar(_, _, _, _, _)
MatchEnd(atoms, k, s, p) ==
    IF k > Len(atoms) THEN p
    ELSE IF atoms[k].star THEN TryStar(atoms, k, s, p, RunLength(s, p, atoms[k].ch))
    ELSE IF p <= Len(s) /\ s[p] = atoms[k].ch THEN MatchEnd(atoms, k + 1, s, p + 1)
    ELSE 0
TryStar(atoms, k, s, p, n) ==
    LET e == MatchEnd(atoms, k + 1, s, p + n) IN
    IF e # 0 THEN e
    ELSE IF n = 0 THEN 0
    ELSE TryStar(atoms, k, s, p, n - 1)

\* regex.exec(code) with regex.lastIndex = lastIndex: the leftmost match that
\* starts at index >= lastIndex as <<[index, end]>> (end is the new
\* lastIndex), or <<>> for null.
Exec(atoms, s, lastIndex) ==
    LET p == Leftmost({q \in (lastIndex + 1)..(Len(s) + 1) :
                          MatchEnd(atoms, 1, s, q) # 0})
    IN  IF p = 0 THEN <<>>
        ELSE <<[index |-> p - 1, end |-> MatchEnd(atoms, 1, s, p) - 1]>>

\* while ((match = regex.exec(code)) !== null) violations.push(...): the
\* violations pushed from lastIndex on, after acc.  exec sets lastIndex to the
\* end of the match; an iteration that leaves lastIndex where it was is
\* followed by the same iteration again, without end: [hang |-> TRUE].
RECURSIVE ScanLoop(_, _, _, _, _)
ScanLoop(pattern, atoms, s, lastIndex, acc) ==
    LET m == Exec(atoms, s, lastIndex) IN
    IF m = <<>> THEN [hang |-> FALSE, violations |-> acc]
    ELSE LET pushed == Append(acc,
                 Violation("forbidden_pattern", "error", pattern.description,
                           <<getLineNumber(s, m[1].index)>>,
                           <<"R", "e", "m", "o", "v", "e", " ", "o", "r", " ", "r", "e", "p", "l",
                               "a", "c", "e", " ", "t", "h", "i", "s", " ", "f", "o", "r", "b",
                               "i", "d", "d", "e", "n", " ", "p", "a", "t", "t", "e", "r",
                               "n">> (* Remove or replace this forbidden pattern *)))
         IN  IF m[1].end = lastIndex
             THEN [hang |-> TRUE, violations |-> pushed]
             ELSE ScanLoop(pattern, atoms, s, m[1].end, pushed)

\* A variant of ForbiddenFrom with the try around the whole loop: a pattern
\* that does not compile ends the check.
RECURSIVE ForbiddenFrom_TryAroundLoop(_, _, _, _)
ForbiddenFrom_TryAroundLoop(patterns, k, s, acc) ==
    IF k > Len(patterns) THEN [hang |-> FALSE, violations |-> acc]
    ELSE LET regex == Compile(patterns[k].match) IN
         IF regex = <<>> THEN [hang |-> FALSE, violations |-> acc]
         ELSE LET r == ScanLoop(patterns[k], regex[1], s, 0, acc) IN
              IF r.hang THEN r
              ELSE ForbiddenFrom_TryAroundLoop(patterns, k + 1, s, r.violations)

\* for (const pattern of patterns) { try { ... } catch { console.error } },
\* from pattern k on.
RECURSIVE ForbiddenFrom(_, _, _, _)
ForbiddenFrom(patterns, k, s, acc) ==
    IF k > Len(patterns) THEN [hang |-> FALSE, violations |-> acc]
    ELSE LET regex == Compile(patterns[k].match) IN
         IF regex = <<>> THEN ForbiddenFrom(patterns, k + 1, s, acc)
         ELSE LET r == ScanLoop(patterns[k], regex[1], s, 0, acc) IN
              IF r.hang THEN r
              ELSE ForbiddenFrom(patterns, k + 1, s, r.violations)

validateForbiddenPatterns(c, cfg) == ForbiddenFrom(cfg.forbidden_patterns, 1, c, <<>>)

(***************************************************************************)
(* Setting values of security_defaults: boolean | string | number, or      *)
(* undefined when the key is not set.  All four are records of one shape.  *)
(***************************************************************************)

Undefined == [t |-> "undefined", b |-> FALSE, n |-> 0, s |-> <<>>]
Bool(x) == [t |-> "boolean", b |-> x, n |-> 0, s |-> <<>>]
Num(x) == [t |-> "number", b |-> FALSE, n |-> x, s |-> <<>>]
Str(x) == [t |-> "string", b |-> FALSE, n |-> 0, s |-> x]

\* ToBoolean
Truthy(v) ==
    CASE v.t = "boolean" -> v.b
      [] v.t = "number" -> v.n # 0
      [] v.t = "string" -> v.s # <<>>
      [] OTHER -> FALSE

\* a || b
OrElse(a, b) == IF Truthy(a) THEN a ELSE b

Digit == <<"0", "1", "2", "3", "4", "5", "6", "7", "8", "9">>

\* Number::toStr of a natural number.
RECURSIVE NatToString(_)
NatToString(n) ==
    IF n < 10 THEN <<Digit[n + 1]>>
    ELSE NatToString(n \div 10) \o <<Digit[(n % 10) + 1]>>

\* String conversion of a value inside a template literal.
TemplateString(v) ==
    CASE v.t = "boolean" -> IF v.b THEN <<"t", "r", "u", "e">> (* true *) ELSE <<"f", "a", "l",
        "s", "e">> (* false *)
      [] v.t = "number" -> NatToString(v.n)
      [] v.t = "string" -> v.s
      [] OTHER -> <<"u", "n", "d", "e", "f", "i", "n", "e", "d">> (* undefined *)

(***************************************************************************)
(* validateSecurityDefaults                                                *)
(***************************************************************************)

\* /lit/i.test(s)
TestLit(s, lit) == FindLit(s, 1, lit, TRUE) # 0

\* /key\s*=\s*true/i.test(s)
TestAssignedTrue(s, key) ==
    \E p \in 1..Len(s) :
        /\ LitAt(s, p, key, TRUE)
        /\ LET eq == SkipSpaces(s, p + Len(key)) IN
           /\ LitAt(s, eq, <<"=">>, FALSE)
           /\ LitAt(s, SkipSpaces(s, eq + 1), <<"t", "r", "u", "e">> (* true *), TRUE)

\* /versioning\s*[={]/i.test(s)
TestVersioning(s) ==
    \E p \in 1..Len(s) :
        /\ LitAt(s, p, <<"v", "e", "r", "s", "i", "o", "n", "i", "n", "g">> (* versioning *), TRUE)
        /\ LET q == SkipSpaces(s, p + 10) IN q <= Len(s) /\ s[q] \in {"=", "{"}

\* /keyword\s+"name/i attempted at p: the position after it, or 0.
DeclAt(s, p, keyword, name) ==
    IF ~LitAt(s, p, keyword, TRUE) THEN 0
    ELSE LET q == SkipSpaces(s, p + Len(keyword)) IN
         IF q > p + Len(keyword) /\ LitAt(s, q, <<"\"">> \o name, TRUE)
         THEN q + 1 + Len(name)
         ELSE 0

\* A variant of TestS3Resource without the flag i.
TestS3Resource_CaseSensitive(s) ==
    \E p \in 1..Len(s) :
        /\ LitAt(s, p, <<"r", "e", "s", "o", "u", "r", "c", "e">> (* resource *), FALSE)
        /\ DeclAt(s, p, <<"r", "e", "s", "o", "u", "r", "c", "e">> (* resource *), <<"a", "w", "s",
            "_", "s", "3", "_", "b", "u", "c", "k", "e", "t", "\"">> (* aws_s3_bucket\" *)) # 0
        /\ LitAt(s, DeclAt(s, p, <<"r", "e", "s", "o", "u", "r", "c", "e">> (* resource *), <<"a",
            "w", "s", "_", "s", "3", "_", "b", "u", "c", "k", "e", "t",
            "\"">> (* aws_s3_bucket\" *)) - 14,
                 <<"a", "w", "s", "_", "s", "3", "_", "b", "u", "c", "k", "e",
                     "t">> (* aws_s3_bucket *), FALSE)

\* /resource\s+"aws_s3_bucket"/i.test(s)
TestS3Resource(s) ==
    \E p \in 1..Len(s) : DeclAt(s, p, <<"r", "e", "s", "o", "u", "r", "c",
        "e">> (* resource *), <<"a", "w", "s", "_", "s", "3", "_", "b", "u", "c", "k", "e", "t",
        "\"">> (* aws_s3_bucket\" *)) # 0

\* /(resource\s+"aws_db_instance"|module\s+".*rds)/i.test(s); '.' matches no
\* line terminator.
TestRDSResource(s) ==
    \E p \in 1..Len(s) :
        \/ DeclAt(s, p, <<"r", "e", "s", "o", "u", "r", "c", "e">> (* resource *), <<"a", "w", "s",
            "_", "d", "b", "_", "i", "n", "s", "t", "a", "n", "c", "e",
            "\"">> (* aws_db_instance\" *)) # 0
        \/ LET q == DeclAt(s, p, <<"m", "o", "d", "u", "l", "e">> (* module *), <<>>) IN
           /\ q # 0
           /\ \E r \in q..Len(s) :
                 /\ LitAt(s, r, <<"r", "d", "s">> (* rds *), TRUE)
                 /\ \A k \in q..(r - 1) : s[k] \notin {"\n", "\r"}

validateS3Bucket(c, defaults) ==
    LET Warn(key, suggestion) ==
            Violation("s3_security_default", "warn",
                      <<"S", "3", " ", "b", "u", "c", "k", "e", "t", " ", "s", "h", "o", "u", "l",
                          "d", " ", "h", "a", "v", "e",
                          " ">> (* S3 bucket should have  *) \o key \o <<" ", "e", "n", "a", "b",
                          "l", "e", "d">> (*  enabled *), <<>>, suggestion)
    IN  (IF Truthy(defaults.block_public_acls)
            /\ ~TestAssignedTrue(c, <<"b", "l", "o", "c", "k", "_", "p", "u", "b", "l", "i", "c",
                "_", "a", "c", "l", "s">> (* block_public_acls *))
         THEN <<Warn(<<"b", "l", "o", "c", "k", "_", "p", "u", "b", "l", "i", "c", "_", "a", "c",
             "l", "s">> (* block_public_acls *), <<"S", "e", "t", " ", "b", "l", "o", "c", "k",
             "_", "p", "u", "b", "l", "i", "c", "_", "a", "c", "l", "s", " ", "=", " ", "t", "r",
             "u", "e">> (* Set block_public_acls = true *))>>
         ELSE <<>>)
     \o (IF Truthy(defaults.block_public_policy)
            /\ ~TestAssignedTrue(c, <<"b", "l", "o", "c", "k", "_", "p", "u", "b", "l", "i", "c",
                "_", "p", "o", "l", "i", "c", "y">> (* block_public_policy *))
         THEN <<Warn(<<"b", "l", "o", "c", "k", "_", "p", "u", "b", "l", "i", "c", "_", "p", "o",
             "l", "i", "c", "y">> (* block_public_policy *), <<"S", "e", "t", " ", "b", "l", "o",
             "c", "k", "_", "p", "u", "b", "l", "i", "c", "_", "p", "o", "l", "i", "c", "y", " ",
             "=", " ", "t", "r", "u", "e">> (* Set block_public_policy = true *))>>
         ELSE <<>>)
     \o (IF Truthy(defaults.versioning) /\ ~TestVersioning(c)
         THEN <<Warn(<<"v", "e", "r", "s", "i", "o", "n", "i", "n", "g">> (* versioning *), <<"E",
             "n", "a", "b", "l", "e", " ", "v", "e", "r", "s", "i", "o", "n", "i", "n",
             "g">> (* Enable versioning *))>>
         ELSE <<>>)
     \o (IF Truthy(defaults.encryption) /\ ~TestLit(c, <<"e", "n", "c", "r", "y", "p", "t", "i",
         "o", "n">> (* encryption *))
         THEN <<Warn(<<"e", "n", "c", "r", "y", "p", "t", "i", "o", "n">> (* encryption *),
                     <<"E", "n", "a", "b", "l", "e", " ", "e", "n", "c", "r", "y", "p", "t", "i",
                         "o", "n", " ", "(", "e", ".", "g", ".", ",", " ", "e", "n", "c", "r", "y",
                         "p", "t", "i", "o", "n", " ", "=", " ",
                         "\"">> (* Enable encryption (e.g., encryption = \" *)
                         \o TemplateString(defaults.encryption) \o <<"\"", ")">>)>>
         ELSE <<>>)

validateRDS(c, defaults) ==
    (IF Truthy(defaults.storage_encrypted) /\ ~TestAssignedTrue(c, <<"s", "t", "o", "r", "a", "g",
        "e", "_", "e", "n", "c", "r", "y", "p", "t", "e", "d">> (* storage_encrypted *))
     THEN <<Violation("rds_security_default", "warn",
                      <<"R", "D", "S", " ", "i", "n", "s", "t", "a", "n", "c", "e", " ", "s", "h",
                          "o", "u", "l", "d", " ", "h", "a", "v", "e", " ", "s", "t", "o", "r",
                          "a", "g", "e", "_", "e", "n", "c", "r", "y", "p", "t", "e", "d", " ",
                          "=", " ", "t", "r", "u",
                          "e">> (* RDS instance should have storage_encrypted = true *), <<>>,
                      <<"S", "e", "t", " ", "s", "t", "o", "r", "a", "g", "e", "_", "e", "n", "c",
                          "r", "y", "p", "t", "e", "d", " ", "=", " ", "t", "r", "u",
                          "e">> (* Set storage_encrypted = true *))>>
     ELSE <<>>)
 \o (IF Truthy(defaults.backup_retention_period)
        /\ ~TestLit(c, <<"b", "a", "c", "k", "u", "p", "_", "r", "e", "t", "e", "n", "t", "i", "o",
            "n", "_", "p", "e", "r", "i", "o", "d">> (* backup_retention_period *))
     THEN <<Violation("rds_security_default", "warn",
                      <<"R", "D", "S", " ", "i", "n", "s", "t", "a", "n", "c", "e", " ", "s", "h",
                          "o", "u", "l", "d", " ", "s", "p", "e", "c", "i", "f", "y", " ", "b",
                          "a", "c", "k", "u", "p", "_", "r", "e", "t", "e", "n", "t", "i", "o",
                          "n", "_", "p", "e", "r", "i", "o",
                          "d">> (* RDS instance should specify backup_retention_period *), <<>>,
                      <<"S", "e", "t", " ", "b", "a", "c", "k", "u", "p", "_", "r", "e", "t", "e",
                          "n", "t", "i", "o", "n", "_", "p", "e", "r", "i", "o", "d", " ", "=",
                          " ", "7", " ", "(", "o", "r", " ", "h", "i", "g", "h", "e", "r",
                          ")">> (* Set backup_retention_period = 7 (or higher) *))>>
     ELSE <<>>)

validateSecurityDefaults(c, cfg) ==
    (IF cfg.s3_bucket.present /\ TestS3Resource(c)
     THEN validateS3Bucket(c, cfg.s3_bucket) ELSE <<>>)
 \o (IF cfg.rds.present /\ TestRDSResource(c)
     THEN validateRDS(c, cfg.rds) ELSE <<>>)

(***************************************************************************)
(* validateNamingConventions                                               *)
(***************************************************************************)

\* (namingFormat.match(/<[^>]+>/g) || []).length, counting from position p.
RECURSIVE CountPlaceholders(_, _)
CountPlaceholders(format, p) ==
    IF p > Len(format) THEN 0
    ELSE LET close == FindChar(format, p + 1, {">"}) IN
         IF format[p] = "<" /\ close >= p + 2
         THEN 1 + CountPlaceholders(format, close + 1)
         ELSE CountPlaceholders(format, p + 1)

\* /name\s*=\s*["']([^"']+)["']/g attempted at p: <<[index, value, end]>>
\* (end is the position after the match), or <<>>.
NameAssignAt(s, p) ==
    IF ~LitAt(s, p, <<"n", "a", "m", "e">> (* name *), FALSE) THEN <<>>
    ELSE LET eq == SkipSpaces(s, p + 4) IN
         IF ~LitAt(s, eq, <<"=">>, FALSE) THEN <<>>
         ELSE LET open == SkipSpaces(s, eq + 1)
                  close == FindChar(s, open + 1, {"\"", "'"})
              IN  IF open <= Len(s) /\ s[open] \in {"\"", "'"} /\ close >= open + 2
                  THEN <<[index |-> p - 1, value |-> SubSeq(s, open + 1, close - 1),
                          end |-> close + 1]>>
                  ELSE <<>>

\* code.matchAll(...): the matches from position p on, left to right.
RECURSIVE NameMatches(_, _)
NameMatches(s, p) ==
    LET q == Leftmost({r \in p..Len(s) : NameAssignAt(s, r) # <<>>}) IN
    IF q = 0 THEN <<>>
    ELSE NameAssignAt(s, q) \o NameMatches(s, NameAssignAt(s, q)[1].end)

validateNamingConventions(c, cfg) ==
    LET namingFormat == cfg.resource_format
        componentCount == CountPlaceholders(namingFormat, 1)
        Checked(m) ==
            LET name == m.value
                parts == CountChar(name, "-") + 1
            IN  IF LitAt(name, 1, <<"$", "{">>, FALSE) \/ LitAt(name, 1, <<"v", "a", "r",
                ".">> (* var. *), FALSE)
                THEN <<>>
                ELSE IF parts < componentCount
                THEN <<Violation("naming_convention", "info",
                           <<"R", "e", "s", "o", "u", "r", "c", "e", " ", "n", "a", "m", "e", " ",
                               "\"">> (* Resource name \" *) \o name \o <<"\"", " ", "d", "o", "e",
                               "s", "n", "'", "t", " ", "f", "o", "l", "l", "o", "w", " ", "f",
                               "o", "r", "m", "a", "t", ":", " ">> (* \" doesn't follow format:  *)
                               \o namingFormat,
                           <<getLineNumber(c, m.index)>>,
                           <<"U", "s", "e", " ", "f", "o", "r", "m", "a", "t", ":",
                               " ">> (* Use format:  *) \o namingFormat \o <<" ", "(", "e", "x",
                               "p", "e", "c", "t", "e", "d", " ">> (*  (expected  *)
                               \o NatToString(componentCount) \o <<"+", " ", "p", "a", "r", "t",
                                   "s", ",", " ", "g", "o", "t", " ">> (* + parts, got  *)
                               \o NatToString(parts) \o <<")">>)>>
                ELSE <<>>
        RECURSIVE Each(_)
        Each(ms) == IF ms = <<>> THEN <<>> ELSE Checked(Head(ms)) \o Each(Tail(ms))
    IN  IF namingFormat = <<>> THEN <<>>
        ELSE IF componentCount < 2 THEN <<>>
        ELSE Each(NameMatches(c, 1))

(***************************************************************************)
(* validateSnippet.  kind is "returned" for a ValidationResult and "hang"  *)
(* for a call that never returns.                                          *)
(***************************************************************************)

\* A variant of IsValid: violations.length === 0.
IsValid_NoViolations(violations) == violations = <<>>

\* violations.filter((v) => v.severity === 'error').length === 0
IsValid(violations) ==
    Len(SelectSeq(violations, LAMBDA v : v.severity = "error")) = 0

\* A variant of validateSnippet that checks the names before the security
\* defaults.
validateSnippet_NamingBeforeSecurity(c, cfg) ==
    LET forbidden == validateForbiddenPatterns(c, cfg)
        violations == validateRequiredTags(c, cfg)
                          \o forbidden.violations
                          \o validateNamingConventions(c, cfg)
                          \o validateSecurityDefaults(c, cfg)
    IN  IF forbidden.hang
        THEN [kind |-> "hang", valid |-> FALSE, violations |-> <<>>]
        ELSE [kind |-> "returned",
              valid |-> IsValid(violations),
              violations |-> violations]

validateSnippet(c, cfg) ==
    LET forbidden == validateForbiddenPatterns(c, cfg)
        violations == validateRequiredTags(c, cfg)
                          \o forbidden.violations
                          \o validateSecurityDefaults(c, cfg)
                          \o validateNamingConventions(c, cfg)
    IN  IF forbidden.hang
        THEN [kind |-> "hang", valid |-> FALSE, violations |-> <<>>]
        ELSE [kind |-> "returned",
              valid |-> IsValid(violations),
              violations |-> violations]

(***************************************************************************)
(* The generator.  An object (Record<string, string>) is the sequence of   *)
(* its <<key, value>> pairs in the order the keys were created.            *)
(***************************************************************************)

\* s.replace(/pat/g, rep) for a pattern that is a literal, from position p on.
\* The replacement strings of the model hold no '$' replacement pattern.
RECURSIVE ReplaceAll(_, _, _, _)
ReplaceAll(s, p, pat, rep) ==
    IF p > Len(s) THEN <<>>
    ELSE IF LitAt(s, p, pat, FALSE) THEN rep \o ReplaceAll(s, p + Len(pat), pat, rep)
    ELSE <<s[p]>> \o ReplaceAll(s, p + 1, pat, rep)

buildResourceName(service, env, purpose, cfg) ==
    LET format == cfg.resource_format
        hy == <<"-">>
    IN  IF format = <<>>
        THEN IF purpose # <<>> THEN service \o hy \o env \o hy \o purpose
             ELSE service \o hy \o env
        ELSE LET a == ReplaceAll(format, 1, <<"<", "p", "r", "o", "j", "e", "c", "t",
            ">">> (* <project> *), <<"$", "{", "l", "o", "c", "a", "l", ".", "p", "r", "o", "j",
            "e", "c", "t", "}">> (* ${local.project} *))
                 b == ReplaceAll(a, 1, <<"<", "e", "n", "v", ">">> (* <env> *), env)
                 c == ReplaceAll(b, 1, <<"<", "c", "o", "m", "p", "o", "n", "e", "n", "t",
                     ">">> (* <component> *), service)
                 d == ReplaceAll(c, 1, <<"<", "e", "x", "t", "r", "a", "?",
                     ">">> (* <extra?> *), purpose)
             IN  ReplaceAll(d, 1, <<"-", "-">>, <<"-">>)

\* The value of a decimal digit.
DigitValue(c) == CHOOSE d \in 0..9 : Digit[d + 1] = c

\* a < b for two strings of decimal digits without leading zeros.
RECURSIVE DigitsLess(_, _)
DigitsLess(a, b) ==
    IF Len(a) # Len(b) THEN Len(a) < Len(b)
    ELSE IF a = <<>> THEN FALSE
    ELSE IF Head(a) # Head(b) THEN DigitValue(Head(a)) < DigitValue(Head(b))
    ELSE DigitsLess(Tail(a), Tail(b))

\* An integer index key (the canonical numeric string of a number below
\* 2^32 - 1): own property keys list these first, in ascending order.
IsIntegerKey(key) ==
    /\ key # <<>>
    /\ \A k \in 1..Len(key) : \E d \in 1..10 : Digit[d] = key[k]
    /\ (Len(key) > 1 => key[1] # "0")
    /\ DigitsLess(key, <<"4", "2", "9", "4", "9", "6", "7", "2", "9", "5">> (* 4294967295 *))

\* obj[key] = value: an existing key keeps its place.
SetProperty(obj, key, value) ==
    IF \E k \in 1..Len(obj) : obj[k][1] = key
    THEN [k \in 1..Len(obj) |-> IF obj[k][1] = key THEN <<key, value>> ELSE obj[k]]
    ELSE Append(obj, <<key, value>>)

\* The pairs of obj in ascending order of their integer keys.
RECURSIVE SortByIntegerKey(_)
SortByIntegerKey(obj) ==
    IF obj = <<>> THEN <<>>
    ELSE LET least == CHOOSE k \in 1..Len(obj) :
                         \A j \in 1..Len(obj) : ~DigitsLess(obj[j][1], obj[k][1])
         IN  <<obj[least]>>
                 \o SortByIntegerKey(SubSeq(obj, 1, least - 1)
                                         \o SubSeq(obj, least + 1, Len(obj)))

\* Object.entries(obj): integer keys ascending, then the others as created.
Entries(obj) ==
    SortByIntegerKey(SelectSeq(obj, LAMBDA e : IsIntegerKey(e[1])))
        \o SelectSeq(obj, LAMBDA e : ~IsIntegerKey(e[1]))

\* { ...a, ...b }
RECURSIVE Spread(_, _)
Spread(acc, entries) ==
    IF entries = <<>> THEN acc
    ELSE Spread(SetProperty(acc, Head(entries)[1], Head(entries)[2]), Tail(entries))

buildTags(extraTags, cfg) ==
    LET defaultTags == cfg.defaults
        allTags == Entries(Spread(Spread(<<>>, Entries(defaultTags)), Entries(extraTags)))
        tagLines == Join([k \in 1..Len(allTags) |->
                             <<" ", " ", " ", " ">> (*      *) \o allTags[k][1] \o <<" ", "=", " ",
                                 "\"">> (*  = \" *) \o allTags[k][2] \o <<"\"">>],
                         <<"\n">>)
    IN  IF allTags = <<>> THEN <<" ", " ", "t", "a", "g", "s", " ", "=", " ", "l", "o", "c", "a",
        "l", ".", "d", "e", "f", "a", "u", "l", "t", "_", "t", "a", "g",
        "s">> (*   tags = local.default_tags *)
        ELSE <<" ", " ", "t", "a", "g", "s", " ", "=", " ", "{",
            "\n">> (*   tags = {\n *) \o tagLines \o <<"\n", " ", " ", "}">> (* \n  } *)

generateS3Bucket(name, tags, cfg) ==
    LET securityDefaults == cfg.s3_bucket
        acls == TemplateString(OrElse(securityDefaults.block_public_acls, Bool(FALSE)))
        policy == TemplateString(OrElse(securityDefaults.block_public_policy, Bool(FALSE)))
        encType == IF securityDefaults.encryption = Str(<<"a", "w", "s", ":", "k", "m",
            "s">> (* aws:kms *))
                   THEN <<"a", "w", "s", ":", "k", "m", "s">> (* aws:kms *) ELSE <<"A", "E", "S",
                       "2", "5", "6">> (* AES256 *)
    IN  <<"r", "e", "s", "o", "u", "r", "c", "e", " ", "\"", "a", "w", "s", "_", "s", "3", "_",
        "b", "u", "c", "k", "e", "t", "\"", " ", "\"", "t", "h", "i", "s", "\"", " ", "{", "\n",
        " ", " ", "b", "u", "c", "k", "e", "t", " ", "=", " ",
        "\"">> (* resource \"aws_s3_bucket\" \"this\" {\n  bucket = \" *) \o name \o <<"\"", "\n",
        "\n">> (* \"\n\n *)
            \o tags \o <<"\n", "}">>
     \o (IF Truthy(securityDefaults.versioning)
         THEN <<"\n", "\n", "r", "e", "s", "o", "u", "r", "c", "e", " ", "\"", "a", "w", "s", "_",
             "s", "3", "_", "b", "u", "c", "k", "e", "t", "_", "v", "e", "r", "s", "i", "o", "n",
             "i", "n", "g", "\"", " ", "\"", "t", "h", "i", "s", "\"", " ", "{",
             "\n">> (* \n\nresource \"aws_s3_bucket_versioning\" \"this\" {\n *)
               \o <<" ", " ", "b", "u", "c", "k", "e", "t", " ", "=", " ", "a", "w", "s", "_", "s",
                   "3", "_", "b", "u", "c", "k", "e", "t", ".", "t", "h", "i", "s", ".", "i", "d",
                   "\n", "\n">> (*   bucket = aws_s3_bucket.this.id\n\n *)
               \o <<" ", " ", "v", "e", "r", "s", "i", "o", "n", "i", "n", "g", "_", "c", "o", "n",
                   "f", "i", "g", "u", "r", "a", "t", "i", "o", "n", " ", "{", "\n", " ", " ", " ",
                   " ", "s", "t", "a", "t", "u", "s", " ", "=", " ", "\"", "E", "n", "a", "b", "l",
                   "e", "d", "\"", "\n", " ", " ", "}", "\n",
                   "}">> (*   versioning_configuration {\n    status = \"Enabled\"\n  }\n} *)
         ELSE <<>>)
     \o (IF Truthy(securityDefaults.block_public_acls)
            \/ Truthy(securityDefaults.block_public_policy)
         THEN <<"\n", "\n", "r", "e", "s", "o", "u", "r", "c", "e", " ", "\"", "a", "w", "s", "_",
             "s", "3", "_", "b", "u", "c", "k", "e", "t", "_", "p", "u", "b", "l", "i", "c", "_",
             "a", "c", "c", "e", "s", "s", "_", "b", "l", "o", "c", "k", "\"", " ", "\"", "t", "h",
             "i", "s", "\"", " ", "{",
             "\n">> (* \n\nresource \"aws_s3_bucket_public_access_block\" \"this\" {\n *)
               \o <<" ", " ", "b", "u", "c", "k", "e", "t", " ", "=", " ", "a", "w", "s", "_", "s",
                   "3", "_", "b", "u", "c", "k", "e", "t", ".", "t", "h", "i", "s", ".", "i", "d",
                   "\n", "\n">> (*   bucket = aws_s3_bucket.this.id\n\n *)
               \o <<" ", " ", "b", "l", "o", "c", "k", "_", "p", "u", "b", "l", "i", "c", "_", "a",
                   "c", "l", "s", " ", " ", " ", " ", " ", " ", " ", "=",
                   " ">> (*   block_public_acls       =  *) \o acls \o <<"\n">>
               \o <<" ", " ", "b", "l", "o", "c", "k", "_", "p", "u", "b", "l", "i", "c", "_", "p",
                   "o", "l", "i", "c", "y", " ", " ", " ", " ", " ", "=",
                   " ">> (*   block_public_policy     =  *) \o policy \o <<"\n">>
               \o <<" ", " ", "i", "g", "n", "o", "r", "e", "_", "p", "u", "b", "l", "i", "c", "_",
                   "a", "c", "l", "s", " ", " ", " ", " ", " ", " ", "=",
                   " ">> (*   ignore_public_acls      =  *) \o acls \o <<"\n">>
               \o <<" ", " ", "r", "e", "s", "t", "r", "i", "c", "t", "_", "p", "u", "b", "l", "i",
                   "c", "_", "b", "u", "c", "k", "e", "t", "s", " ", "=",
                   " ">> (*   restrict_public_buckets =  *) \o policy \o <<"\n", "}">>
         ELSE <<>>)
     \o (IF Truthy(securityDefaults.encryption)
         THEN <<"\n", "\n", "r", "e", "s", "o", "u", "r", "c", "e", " ", "\"", "a", "w", "s", "_",
             "s", "3", "_", "b", "u", "c", "k", "e", "t", "_", "s", "e", "r", "v", "e", "r", "_",
             "s", "i", "d", "e", "_", "e", "n", "c", "r", "y", "p", "t", "i", "o", "n", "_", "c",
             "o", "n", "f", "i", "g", "u", "r", "a", "t", "i", "o", "n", "\"", " ", "\"", "t", "h",
             "i", "s", "\"", " ", "{",
             "\n">> (* \n\nresource \"aws_s3_bucket_server_side_encryption_configuration\" \"this\" {\n *)
               \o <<" ", " ", "b", "u", "c", "k", "e", "t", " ", "=", " ", "a", "w", "s", "_", "s",
                   "3", "_", "b", "u", "c", "k", "e", "t", ".", "t", "h", "i", "s", ".", "i", "d",
                   "\n", "\n">> (*   bucket = aws_s3_bucket.this.id\n\n *)
               \o <<" ", " ", "r", "u", "l", "e", " ", "{", "\n", " ", " ", " ", " ", "a", "p",
                   "p", "l", "y", "_", "s", "e", "r", "v", "e", "r", "_", "s", "i", "d", "e", "_",
                   "e", "n", "c", "r", "y", "p", "t", "i", "o", "n", "_", "b", "y", "_", "d", "e",
                   "f", "a", "u", "l", "t", " ", "{",
                   "\n">> (*   rule {\n    apply_server_side_encryption_by_default {\n *)
               \o <<" ", " ", " ", " ", " ", " ", "s", "s", "e", "_", "a", "l", "g", "o", "r", "i",
                   "t", "h", "m", " ", "=", " ",
                   "\"">> (*       sse_algorithm = \" *) \o encType \o <<"\"", "\n", " ", " ", " ",
                   " ", "}", "\n", " ", " ", "}", "\n", "}">> (* \"\n    }\n  }\n} *)
         ELSE <<>>)

generateRDSInstance(name, tags, cfg) ==
    LET securityDefaults == cfg.rds IN
    <<"r", "e", "s", "o", "u", "r", "c", "e", " ", "\"", "a", "w", "s", "_", "d", "b", "_", "i",
        "n", "s", "t", "a", "n", "c", "e", "\"", " ", "\"", "t", "h", "i", "s", "\"", " ", "{",
        "\n", " ", " ", "i", "d", "e", "n", "t", "i", "f", "i", "e", "r", " ", "=", " ",
        "\"">> (* resource \"aws_db_instance\" \"this\" {\n  identifier = \" *) \o name \o <<"\"",
        "\n", "\n">> (* \"\n\n *)
     \o <<" ", " ", "e", "n", "g", "i", "n", "e", " ", " ", " ", " ", " ", " ", " ", " ", " ", "=",
         " ", "\"", "p", "o", "s", "t", "g", "r", "e", "s", "\"", "\n", " ", " ", "e", "n", "g",
         "i", "n", "e", "_", "v", "e", "r", "s", "i", "o", "n", " ", "=", " ", "\"", "1", "5", ".",
         "4", "\"", "\n">> (*   engine         = \"postgres\"\n  engine_version = \"15.4\"\n *)
     \o <<" ", " ", "i", "n", "s", "t", "a", "n", "c", "e", "_", "c", "l", "a", "s", "s", " ", "=",
         " ", "\"", "d", "b", ".", "t", "3", ".", "m", "i", "c", "r", "o", "\"", "\n", " ", " ",
         "\n", " ", " ", "a", "l", "l", "o", "c", "a", "t", "e", "d", "_", "s", "t", "o", "r", "a",
         "g", "e", " ", "=", " ", "2", "0",
         "\n">> (*   instance_class = \"db.t3.micro\"\n  \n  allocated_storage = 20\n *)
     \o <<" ", " ", "s", "t", "o", "r", "a", "g", "e", "_", "e", "n", "c", "r", "y", "p", "t", "e",
         "d", " ", "=", " ">> (*   storage_encrypted =  *)
     \o TemplateString(OrElse(securityDefaults.storage_encrypted, Bool(FALSE)))
     \o <<"\n", "\n", " ", " ", "b", "a", "c", "k", "u", "p", "_", "r", "e", "t", "e", "n", "t",
         "i", "o", "n", "_", "p", "e", "r", "i", "o", "d", " ", "=",
         " ">> (* \n\n  backup_retention_period =  *)
     \o TemplateString(OrElse(securityDefaults.backup_retention_period, Num(7)))
     \o <<"\n", " ", " ", "\n", " ", " ", "#", " ", "T", "O", "D", "O", ":", " ", "C", "o", "n",
         "f", "i", "g", "u", "r", "e", " ", "u", "s", "e", "r", "n", "a", "m", "e", ",", " ", "p",
         "a", "s", "s", "w", "o", "r", "d", ",", " ", "v", "p", "c", "_", "s", "e", "c", "u", "r",
         "i", "t", "y", "_", "g", "r", "o", "u", "p", "_", "i", "d", "s", ",", " ", "d", "b", "_",
         "s", "u", "b", "n", "e", "t", "_", "g", "r", "o", "u", "p", "_", "n", "a", "m", "e", "\n",
         "\n">> (* \n  \n  # TODO: Configure username, password, vpc_security_group_ids, db_subnet_group_name\n\n *)
     \o tags \o <<"\n", "}">>

generateGenericResource(resourceType, name, tags) ==
    <<"#", " ", "G", "e", "n", "e", "r", "a", "t", "e", "d", " ", "s", "t", "u", "b", " ", "f",
        "o", "r", " ">> (* # Generated stub for  *) \o resourceType
     \o <<"\n", "#", " ", "P", "l", "e", "a", "s", "e", " ", "c", "u", "s", "t", "o", "m", "i",
         "z", "e", " ", "t", "h", "i", "s", " ", "r", "e", "s", "o", "u", "r", "c", "e", " ", "a",
         "c", "c", "o", "r", "d", "i", "n", "g", " ", "t", "o", " ", "y", "o", "u", "r", " ", "n",
         "e", "e", "d", "s", "\n", "\n", "r", "e", "s", "o", "u", "r", "c", "e", " ",
         "\"">> (* \n# Please customize this resource according to your needs\n\nresource \" *)
     \o resourceType \o <<"\"", " ", "\"", "t", "h", "i", "s", "\"", " ", "{", "\n", " ", " ", "n",
         "a", "m", "e", " ", "=", " ", "\"">> (* \" \"this\" {\n  name = \" *) \o name \o <<"\"",
         "\n", "\n">> (* \"\n\n *)
     \o <<" ", " ", "#", " ", "T", "O", "D", "O", ":", " ", "A", "d", "d", " ", "r", "e", "q", "u",
         "i", "r", "e", "d", " ", "a", "r", "g", "u", "m", "e", "n", "t", "s", " ", "f", "o", "r",
         " ">> (*   # TODO: Add required arguments for  *) \o resourceType \o <<"\n", "\n">>
     \o tags \o <<"\n", "}">>

\* A variant of generateResource that dispatches on the prefix of
\* resourceType (startsWith in place of ===).
generateResource_PrefixDispatch(p, cfg) ==
    LET name == buildResourceName(p.service, p.env, p.purpose, cfg)
        tags == buildTags(p.extraTags, cfg)
    IN  IF LitAt(p.resourceType, 1, <<"a", "w", "s", "_", "s", "3", "_", "b", "u", "c", "k", "e",
        "t">> (* aws_s3_bucket *), FALSE)
        THEN generateS3Bucket(name, tags, cfg)
        ELSE IF LitAt(p.resourceType, 1, <<"a", "w", "s", "_", "d", "b", "_", "i", "n", "s", "t",
            "a", "n", "c", "e">> (* aws_db_instance *), FALSE)
        THEN generateRDSInstance(name, tags, cfg)
        ELSE generateGenericResource(p.resourceType, name, tags)

generateResource(p, cfg) ==
    LET name == buildResourceName(p.service, p.env, p.purpose, cfg)
        tags == buildTags(p.extraTags, cfg)
    IN  IF p.resourceType = <<"a", "w", "s", "_", "s", "3", "_", "b", "u", "c", "k", "e",
        "t">> (* aws_s3_bucket *) THEN generateS3Bucket(name, tags, cfg)
        ELSE IF p.resourceType = <<"a", "w", "s", "_", "d", "b", "_", "i", "n", "s", "t", "a", "n",
            "c", "e">> (* aws_db_instance *) THEN generateRDSInstance(name, tags, cfg)
        ELSE generateGenericResource(p.resourceType, name, tags)

(***************************************************************************)
(* The policy document and the operations applied to it.                   *)
(***************************************************************************)

\* security_defaults.s3_bucket / .rds when the policy has no such entry.
NoS3 == [present |-> FALSE, block_public_acls |-> Undefined,
         block_public_policy |-> Undefined, versioning |-> Undefined,
         encryption |-> Undefined]
NoRDS == [present |-> FALSE, storage_encrypted |-> Undefined,
          backup_retention_period |-> Undefined]

\* TerraformStyleConfig; <<>> stands for a field that is not set.
Policy(format, required, defaults, patterns, s3, rds) ==
    [resource_format |-> format, required_tags |-> required, defaults |-> defaults,
     forbidden_patterns |-> patterns, s3_bucket |-> s3, rds |-> rds]

NoParams == [resourceType |-> <<>>, env |-> <<>>, service |-> <<>>,
             purpose |-> <<>>, extraTags |-> <<>>]
NoResult == [kind |-> "none"]

\* request.params of a tools/call request; <<>> stands for an argument that
\* is not given.
Arguments(code_, filePath, resourceType, env, service, purpose, extraTags, search) ==
    [code |-> code_, filePath |-> filePath, resourceType |-> resourceType,
     env |-> env, service |-> service, purpose |-> purpose,
     extraTags |-> extraTags, search |-> search]
NoArguments == Arguments(<<>>, <<>>, <<>>, <<>>, <<>>, <<>>, <<>>, <<>>)
NoRequest == [name |-> <<>>, arguments |-> NoArguments]

\* The naming format and the S3 security defaults of the documented
\* configuration (README, terraform-style.yaml).
StdFormat == <<"<", "p", "r", "o", "j", "e", "c", "t", ">", "-", "<", "e", "n", "v", ">", "-", "<",
    "c", "o", "m", "p", "o", "n", "e", "n", "t", ">", "-", "<", "e", "x", "t", "r", "a", "?",
    ">">> (* <project>-<env>-<component>-<extra?> *)
RoundTripS3 ==
    [present |-> TRUE, block_public_acls |-> Bool(TRUE),
     block_public_policy |-> Undefined, versioning |-> Bool(TRUE),
     encryption |-> Str(<<"a", "w", "s", ":", "k", "m", "s">> (* aws:kms *))]

\* All sequences over S of length at most n.
SeqsUpTo(S, n) == UNION {[1..k -> S] : k \in 0..n}

\* validateSnippet(code, config) is called and returns, or never does.
Validate ==
    /\ pc = "ready"
    /\ pc' = "validated"
    /\ result' = validateSnippet(code, config)
    /\ UNCHANGED <<config, code, params, files, request, transport>>

\* generateResource(params, config) is called and returns the text.
Generate ==
    /\ pc = "ready"
    /\ pc' = "generated"
    /\ result' = [kind |-> "generated", code |-> generateResource(params, config)]
    /\ UNCHANGED <<config, code, params, files, request, transport>>

\* The generated text is validated against the same policy.
ValidateGenerated ==
    /\ pc = "generated"
    /\ pc' = "revalidated"
    /\ code' = result.code
    /\ result' = validateSnippet(result.code, config)
    /\ UNCHANGED <<config, params, files, request, transport>>

(***************************************************************************)
(* Spec: validateSnippet on texts of at most MaxLines lines that trigger   *)
(* each of the four checks, against policies that switch each check on or  *)
(* off.                                                                    *)
(***************************************************************************)

MaxLines == 2

Lines ==
    {<<"r", "e", "s", "o", "u", "r", "c", "e", " ", "\"", "a", "w", "s", "_", "s", "3", "_", "b",
        "u", "c", "k", "e", "t", "\"", " ", "\"", "b", "\"", " ", "{",
        "\n">> (* resource \"aws_s3_bucket\" \"b\" {\n *), <<"v", "e", "r", "s", "i", "o", "n",
        "i", "n", "g", " ", "{", "}", "\n">> (* versioning {}\n *),
     <<"b", "l", "o", "c", "k", "_", "p", "u", "b", "l", "i", "c", "_", "a", "c", "l", "s", " ",
         "=", " ", "t", "r", "u", "e", "\n">> (* block_public_acls = true\n *), <<"r", "e", "s",
         "o", "u", "r", "c", "e", " ", "\"", "a", "w", "s", "_", "d", "b", "_", "i", "n", "s", "t",
         "a", "n", "c", "e", "\"", " ", "\"", "d", "\"", " ", "{",
         "\n">> (* resource \"aws_db_instance\" \"d\" {\n *),
     <<"n", "a", "m", "e", " ", "=", " ", "\"", "w", "e", "b", "\"",
         "\n">> (* name = \"web\"\n *), <<"t", "a", "g", "s", " ", "=", " ", "{", " ", "e", "n",
         "v", " ", "=", " ", "\"", "x", "\"", " ", "}",
         "\n">> (* tags = { env = \"x\" }\n *), <<"a", "b", "\n">> (* ab\n *)}

Texts == {Join(ls, <<>>) : ls \in SeqsUpTo(Lines, MaxLines)}

Policies ==
    {Policy(format, required, <<>>, patterns, s3, rds) :
        format \in {<<>>, StdFormat},
        required \in {<<>>, <<<<"e", "n", "v">> (* env *)>>, <<<<"e", "n", "v">> (* env *), <<"a",
            "p", "p">> (* app *)>>},
        patterns \in {<<>>, <<[description |-> <<"n", "o", " ", "a",
            "b">> (* no ab *), match |-> <<"a", "b">>]>>},
        s3 \in {NoS3, RoundTripS3},
        rds \in {NoRDS, [present |-> TRUE, storage_encrypted |-> Bool(TRUE),
                         backup_retention_period |-> Num(7)]}}

Init ==
    /\ pc = "ready"
    /\ config \in Policies
    /\ code \in Texts
    /\ params = NoParams
    /\ result = NoResult
    /\ files = <<>>
    /\ request = NoRequest
    /\ transport = <<>>

Next == Validate

Spec == Init /\ [][Next]_vars

(***************************************************************************)
(* SpecTags: validateSnippet on texts with and without a tag block,        *)
(* against policies that differ in their required tags.                    *)
(***************************************************************************)

MaxFragments == 4
MaxEntries == 2

TagFragments == {<<"t", "a", "g", "s">> (* tags *), <<" ">>, <<"=">>, <<"{">>, <<"}">>, <<"e", "n",
    "v">> (* env *)}
FragmentTexts == {Join(fs, <<>>) : fs \in SeqsUpTo(TagFragments, MaxFragments)}

TagEntries ==
    {<<"\n", " ", " ">> (* \n   *) \o k \o <<" ", "=", " ", "\"">> (*  = \" *) \o v \o <<"\"">> :
        k \in {<<"e", "n", "v">> (* env *), <<"E", "N", "V">> (* ENV *), <<"\"", "e", "n", "v",
            "\"">> (* \"env\" *), <<"a", "p", "p">> (* app *), <<"'", "a", "p", "p",
            "'">> (* 'app' *), <<"z", "o", "n", "e">> (* zone *)},
        v \in {<<"x">>, <<"$", "{", "v", "a", "r", ".", "x", "}">> (* ${var.x} *)}}
BlockTexts ==
    {prefix \o <<"t", "a", "g", "s", " ", "=", " ",
        "{">> (* tags = { *) \o Join(es, <<>>) \o <<"\n", "}">> :
        prefix \in {<<>>, <<"x", "\n">>}, es \in SeqsUpTo(TagEntries, MaxEntries)}

TagPolicies ==
    {Policy(<<>>, required, <<>>, <<>>, NoS3, NoRDS) :
        required \in {<<>>, <<<<"e", "n", "v">> (* env *)>>, <<<<"a", "p",
            "p">> (* app *)>>, <<<<"e", "n", "v">> (* env *), <<"a", "p", "p">> (* app *)>>}}

InitTags ==
    /\ pc = "ready"
    /\ config \in TagPolicies
    /\ code \in FragmentTexts \cup BlockTexts
    /\ params = NoParams
    /\ result = NoResult
    /\ files = <<>>
    /\ request = NoRequest
    /\ transport = <<>>

NextTags == Validate

SpecTags == InitTags /\ [][NextTags]_vars

(***************************************************************************)
(* Properties of the required-tag check (SpecTags).                        *)
(***************************************************************************)

Returned == pc = "validated" /\ result.kind = "returned"

\* The positions of the violations of result that carry ruleId.
WithRule(ruleId) ==
    {k \in 1..Len(result.violations) : result.violations[k].ruleId = ruleId}

\* The text holds a tag-collection block: the keyword tags, '=', '{' (spaces
\* may separate them) and a '}' somewhere after.
TextHasTagsBlock(s) ==
    \E p \in 1..Len(s) :
        /\ LitAt(s, p, <<"t", "a", "g", "s">> (* tags *), FALSE)
        /\ \E eq \in (p + 4)..Len(s) :
              /\ s[eq] = "="
              /\ \A k \in (p + 4)..(eq - 1) : IsSpace(s[k])
              /\ \E open \in (eq + 1)..Len(s) :
                    /\ s[open] = "{"
                    /\ \A k \in (eq + 1)..(open - 1) : IsSpace(s[k])
                    /\ \E close \in (open + 1)..Len(s) : s[close] = "}"

\* The position of the '}' that closes a block opened before position q,
\* depth further blocks being open at q; 0 when the block is never closed.
RECURSIVE ClosingBrace(_, _, _)
ClosingBrace(s, q, depth) ==
    IF q > Len(s) THEN 0
    ELSE IF s[q] = "{" THEN ClosingBrace(s, q + 1, depth + 1)
    ELSE IF s[q] = "}" THEN IF depth = 0 THEN q ELSE ClosingBrace(s, q + 1, depth - 1)
    ELSE ClosingBrace(s, q + 1, depth)

\* The first tag block of the text, from its '{' to the '}' that closes it:
\* <<content>>, or <<>> when the text has none.
FirstTagBlock(s) ==
    LET OpenAt(p) == IF LitAt(s, p, <<"t", "a", "g", "s">> (* tags *), FALSE)
                        /\ LitAt(s, SkipSpaces(s, p + 4), <<"=">>, FALSE)
                        /\ LitAt(s, SkipSpaces(s, SkipSpaces(s, p + 4) + 1), <<"{">>, FALSE)
                     THEN SkipSpaces(s, SkipSpaces(s, p + 4) + 1)
                     ELSE 0
        p == Leftmost({q \in 1..Len(s) : OpenAt(q) # 0})
    IN  IF p = 0 \/ ClosingBrace(s, OpenAt(p) + 1, 0) = 0 THEN <<>>
        ELSE <<SubSeq(s, OpenAt(p) + 1, ClosingBrace(s, OpenAt(p) + 1, 0) - 1)>>

\* The block holds tag as a key: the tag in any case, bare or quoted, then '='.
HoldsKey(content, tag) ==
    \E q \in 1..Len(content) :
        /\ LitAt(content, q, tag, TRUE)
        /\ LET r == q + Len(tag)
               u == IF r <= Len(content) /\ content[r] \in {"\"", "'"} THEN r + 1 ELSE r
           IN  LitAt(content, SkipSpaces(content, u), <<"=">>, FALSE)

\* C4: when the first tag block of the text holds every required tag as a
\* key (any case, quoted or not), whatever the tag values are, validateSnippet
\* reports no required_tag_missing violation.
C4_RequiredTagsPresent ==
    (/\ Returned
     /\ FirstTagBlock(code) # <<>>
     /\ \A k \in 1..Len(config.required_tags) :
           HoldsKey(FirstTagBlock(code)[1], config.required_tags[k]))
    => WithRule("required_tag_missing") = {}

\* C5: a text without a tag-collection block, validated against a policy with
\* at least one required tag, gets exactly one missing_tags_block violation,
\* of severity error and without a line, no required_tag_missing violation,
\* and valid = false.
C5_MissingTagsBlock ==
    (Returned /\ config.required_tags # <<>> /\ ~TextHasTagsBlock(code))
    => /\ Cardinality(WithRule("missing_tags_block")) = 1
       /\ \A k \in WithRule("missing_tags_block") :
             /\ result.violations[k].severity = "error"
             /\ result.violations[k].line = <<>>
       /\ WithRule("required_tag_missing") = {}
       /\ result.valid = FALSE

\* A text that opens a tag block and never closes it was validated against
\* required tags.
C5_Witness ==
    /\ Returned
    /\ config.required_tags # <<>>
    /\ ~TextHasTagsBlock(code)
    /\ FindLit(code, 1, <<"t", "a", "g", "s", "=", "{">> (* tags={ *), FALSE) # 0
    /\ WithRule("missing_tags_block") # {}

(***************************************************************************)
(* SpecPatterns: validateSnippet against policies with zero, one or two    *)
(* forbidden patterns, on every text over 'a', 'b' and the line break of   *)
(* at most MaxCodeLen characters.                                          *)
(***************************************************************************)

MaxCodeLen == 4

\* Match sources: four that match at least one character, two that match
\* the empty string, two that do not compile.
PatternSources == {<<"a">>, <<"a", "b">>, <<"a", "*", "b">> (* a*b *), <<"b", "a",
    "*">> (* ba* *), <<"a", "*">>, <<>>, <<"*", "a">>, <<"(", "a">>}

ForbiddenPattern(description, match) == [description |-> description, match |-> match]

PatternLists ==
    {<<>>}
        \cup {<<ForbiddenPattern(<<"f", "i", "r", "s",
            "t">> (* first *), m)>> : m \in PatternSources}
        \cup {<<ForbiddenPattern(<<"f", "i", "r", "s",
            "t">> (* first *), m), ForbiddenPattern(<<"s", "e", "c", "o", "n",
            "d">> (* second *), n)>> :
                 m \in PatternSources, n \in PatternSources}

PatternPolicies ==
    {Policy(<<>>, required, <<>>, patterns, NoS3, NoRDS) :
        required \in {<<>>, <<<<"e", "n", "v">> (* env *)>>}, patterns \in PatternLists}

InitPatterns ==
    /\ pc = "ready"
    /\ config \in PatternPolicies
    /\ code \in SeqsUpTo({"a", "b", "\n"}, MaxCodeLen)
    /\ params = NoParams
    /\ result = NoResult
    /\ files = <<>>
    /\ request = NoRequest
    /\ transport = <<>>

NextPatterns == Validate

SpecPatterns == InitPatterns /\ [][NextPatterns]_vars

(***************************************************************************)
(* Properties of the forbidden-pattern check (SpecPatterns).               *)
(***************************************************************************)

\* The number of non-overlapping matches of a compiled pattern in the text
\* from index `from` on, as String.prototype.matchAll lists them: after an
\* empty match the search resumes one character further.
RECURSIVE MatchCount(_, _, _)
MatchCount(atoms, s, from) ==
    LET m == Exec(atoms, s, from) IN
    IF m = <<>> THEN 0
    ELSE 1 + MatchCount(atoms, s,
                        IF m[1].end = m[1].index THEN m[1].end + 1 ELSE m[1].end)

\* The matches of patterns k.. that compile, summed.
RECURSIVE MatchTotal(_, _, _)
MatchTotal(patterns, k, s) ==
    IF k > Len(patterns) THEN 0
    ELSE (IF Compile(patterns[k].match) = <<>> THEN 0
          ELSE MatchCount(Compile(patterns[k].match)[1], s, 0))
             + MatchTotal(patterns, k + 1, s)

\* C6: validateSnippet returns as many forbidden_pattern violations as the
\* declared patterns that compile have non-overlapping matches in the text,
\* each of severity error with its pattern's description as message.
C6_ForbiddenPatternCount ==
    pc = "validated"
    => /\ result.kind = "returned"
       /\ Cardinality(WithRule("forbidden_pattern"))
              = MatchTotal(config.forbidden_patterns, 1, code)
       /\ \A k \in WithRule("forbidden_pattern") :
             /\ result.violations[k].severity = "error"
             /\ \E j \in 1..Len(config.forbidden_patterns) :
                   result.violations[k].message
                       = config.forbidden_patterns[j].description

\* C7: every call of validateSnippet returns (or throws); none runs forever.
C7_ValidateTerminates == pc = "validated" => result.kind \in {"returned", "threw"}

\* The policy without its k-th forbidden pattern.
WithoutPattern(cfg, k) ==
    [cfg EXCEPT !.forbidden_patterns =
        SubSeq(cfg.forbidden_patterns, 1, k - 1)
            \o SubSeq(cfg.forbidden_patterns, k + 1, Len(cfg.forbidden_patterns))]

\* C8: a forbidden pattern that does not compile is skipped: the call does
\* not throw, and its outcome is the outcome of validating the same text
\* against the policy without that pattern.
C8_InvalidPatternIsolated ==
    pc = "validated"
    => /\ result.kind # "threw"
       /\ \A k \in 1..Len(config.forbidden_patterns) :
             Compile(config.forbidden_patterns[k].match) = <<>>
             => result = validateSnippet(code, WithoutPattern(config, k))

\* The first pattern did not compile, the second matched, and the required-tag
\* check reported too.
C8_Witness ==
    /\ Returned
    /\ Len(config.forbidden_patterns) = 2
    /\ Compile(config.forbidden_patterns[1].match) = <<>>
    /\ \E k \in WithRule("forbidden_pattern") :
          result.violations[k].message = config.forbidden_patterns[2].description
    /\ WithRule("missing_tags_block") # {}

(***************************************************************************)
(* Properties of validateSnippet as a whole (Spec).                        *)
(***************************************************************************)

\* The positions of the violations of result that carry severity.
WithSeverity(severity) ==
    {k \in 1..Len(result.violations) : result.violations[k].severity = severity}

\* C1: the result has valid = true exactly when none of its violations has
\* severity error; warn and info violations leave valid true.
C1_ValidIffNoError ==
    Returned => (result.valid <=> WithSeverity("error") = {})

\* A result with warn and info violations and no error, and valid = true.
C1_Witness ==
    /\ Returned
    /\ result.valid
    /\ WithSeverity("warn") # {}
    /\ WithSeverity("info") # {}

(***************************************************************************)
(* SpecGenerate: generateResource on requests for the two known resource   *)
(* types and three others, then validateSnippet on the text it returned,   *)
(* against the same policy.                                                *)
(***************************************************************************)

Requests ==
    {[resourceType |-> t, env |-> e, service |-> <<"a", "n", "a", "l", "y", "t", "i", "c",
        "s">> (* analytics *), purpose |-> u,
      extraTags |-> x] :
        t \in {<<"a", "w", "s", "_", "s", "3", "_", "b", "u", "c", "k", "e",
            "t">> (* aws_s3_bucket *), <<"a", "w", "s", "_", "d", "b", "_", "i", "n", "s", "t",
            "a", "n", "c", "e">> (* aws_db_instance *), <<"a", "w", "s", "_", "i", "n", "s", "t",
            "a", "n", "c", "e">> (* aws_instance *),
               <<"A", "W", "S", "_", "S", "3", "_", "B", "U", "C", "K", "E",
                   "T">> (* AWS_S3_BUCKET *), <<"a", "w", "s", "_", "s", "3", "_", "b", "u", "c",
                   "k", "e", "t", "_", "p", "o", "l", "i", "c", "y">> (* aws_s3_bucket_policy *)},
        e \in {<<"p", "r", "o", "d">> (* prod *), <<"q", "a">>},
        u \in {<<>>, <<"l", "o", "g", "s">> (* logs *), <<"a", "-", "-", "b">> (* a--b *), <<"-",
            "x">>},
        x \in {<<>>, <<<<<<"t", "e", "a", "m">> (* team *), <<"d", "a", "t", "a">> (* data *)>>>>}}

GeneratePolicies ==
    {Policy(format, required, defaults, <<>>, s3, NoRDS) :
        format \in {<<>>, StdFormat, <<"<", "e", "n", "v", ">", "-", "<", "e", "x", "t", "r", "a",
            "?", ">", "-", "<", "c", "o", "m", "p", "o", "n", "e", "n", "t",
            ">">> (* <env>-<extra?>-<component> *)},
        required \in {<<>>, <<<<"e", "n", "v", "i", "r", "o", "n", "m", "e", "n",
            "t">> (* environment *), <<"o", "w", "n", "e", "r">> (* owner *)>>},
        defaults \in {<<>>, <<<<<<"e", "n", "v", "i", "r", "o", "n", "m", "e", "n",
            "t">> (* environment *), <<"$", "{", "v", "a", "r", ".", "e", "n", "v", "i", "r", "o",
            "n", "m", "e", "n", "t", "}">> (* ${var.environment} *)>>,
                              <<<<"o", "w", "n", "e", "r">> (* owner *), <<"i", "n", "f", "r", "a",
                                  "-", "t", "e", "a", "m">> (* infra-team *)>>>>},
        s3 \in {NoS3, RoundTripS3,
                [present |-> TRUE, block_public_acls |-> Undefined,
                 block_public_policy |-> Bool(TRUE), versioning |-> Undefined,
                 encryption |-> Str(<<"A", "E", "S", "2", "5", "6">> (* AES256 *))]}}

InitGenerate ==
    /\ pc = "ready"
    /\ config \in GeneratePolicies
    /\ code = <<>>
    /\ params \in Requests
    /\ result = NoResult
    /\ files = <<>>
    /\ request = NoRequest
    /\ transport = <<>>

NextGenerate == Generate \/ ValidateGenerated

SpecGenerate == InitGenerate /\ [][NextGenerate]_vars

(***************************************************************************)
(* Properties of the generator (SpecGenerate).                             *)
(***************************************************************************)

\* C2: with the S3 security defaults {block_public_acls: true, versioning:
\* true, encryption: "aws:kms"}, the text generated for aws_s3_bucket
\* validates against the same policy without error and without warn
\* violations.
C2_RoundTrip ==
    (/\ pc = "revalidated"
     /\ params.resourceType = <<"a", "w", "s", "_", "s", "3", "_", "b", "u", "c", "k", "e",
         "t">> (* aws_s3_bucket *)
     /\ config.s3_bucket = RoundTripS3)
    => /\ result.kind = "returned"
       /\ \A k \in 1..Len(result.violations) :
             result.violations[k].severity \notin {"error", "warn"}

\* C3: with the format <project>-<env>-<component>-<extra?> and a non-empty,
\* hyphen-free env and service, the synthesized name holds no doubled hyphen
\* and, when purpose is absent or empty, does not end with a hyphen.
C3_NameSynthesis ==
    (/\ pc = "generated"
     /\ config.resource_format = StdFormat
     /\ params.env # <<>> /\ CountChar(params.env, "-") = 0
     /\ params.service # <<>> /\ CountChar(params.service, "-") = 0)
    => LET name == buildResourceName(params.service, params.env, params.purpose, config)
       IN  /\ FindLit(name, 1, <<"-", "-">>, FALSE) = 0
           /\ (params.purpose = <<>> => name[Len(name)] # "-")

\* C9: for a resourceType other than aws_s3_bucket and aws_db_instance,
\* generateResource returns the generic stub: a resource block of the
\* requested kind that holds the synthesized name and the synthesized tags.
C9_GenericStub ==
    (/\ pc = "generated"
     /\ params.resourceType \notin {<<"a", "w", "s", "_", "s", "3", "_", "b", "u", "c", "k", "e",
         "t">> (* aws_s3_bucket *), <<"a", "w", "s", "_", "d", "b", "_", "i", "n", "s", "t", "a",
         "n", "c", "e">> (* aws_db_instance *)})
    => LET name == buildResourceName(params.service, params.env, params.purpose, config)
           tags == buildTags(params.extraTags, config)
       IN  /\ result.kind = "generated"
           /\ LitAt(result.code, 1, <<"#", " ", "G", "e", "n", "e", "r", "a", "t", "e", "d", " ",
               "s", "t", "u", "b", " ", "f", "o", "r",
               " ">> (* # Generated stub for  *) \o params.resourceType \o <<"\n">>,
                    FALSE)
           /\ FindLit(result.code, 1,
                      <<"r", "e", "s", "o", "u", "r", "c", "e", " ",
                          "\"">> (* resource \" *) \o params.resourceType \o <<"\"", " ", "\"",
                          "t", "h", "i", "s", "\"", " ", "{",
                          "\n">> (* \" \"this\" {\n *), FALSE) # 0
           /\ FindLit(result.code, 1, <<" ", " ", "n", "a", "m", "e", " ", "=", " ",
               "\"">> (*   name = \" *) \o name \o <<"\"", "\n">>, FALSE) # 0
           /\ FindLit(result.code, 1, tags \o <<"\n", "}">>, FALSE) # 0

\* A stub was generated for a resource type that begins like a known one,
\* with tags from the policy and from the request.
C9_Witness ==
    /\ pc = "generated"
    /\ params.resourceType = <<"a", "w", "s", "_", "s", "3", "_", "b", "u", "c", "k", "e", "t",
        "_", "p", "o", "l", "i", "c", "y">> (* aws_s3_bucket_policy *)
    /\ params.extraTags # <<>>
    /\ config.defaults # <<>>
    /\ FindLit(result.code, 1, <<"#", " ", "T", "O", "D", "O", ":", " ", "A", "d", "d", " ", "r",
        "e", "q", "u", "i", "r", "e", "d", " ", "a", "r", "g", "u", "m", "e", "n", "t", "s", " ",
        "f", "o", "r">> (* # TODO: Add required arguments for *), FALSE) # 0

(***************************************************************************)
(* SpecOrder: validateSnippet on texts of at most MaxOrderLines lines      *)
(* that set off all four checks at once, against policies whose forbidden  *)
(* patterns match on several lines.                                        *)
(***************************************************************************)

MaxOrderLines == 3

OrderLines ==
    {<<"r", "e", "s", "o", "u", "r", "c", "e", " ", "\"", "a", "w", "s", "_", "s", "3", "_", "b",
        "u", "c", "k", "e", "t", "\"", " ", "\"", "w", "e", "b", "\"", " ", "{",
        "\n">> (* resource \"aws_s3_bucket\" \"web\" {\n *), <<"r", "e", "s", "o", "u", "r", "c",
        "e", " ", "\"", "a", "w", "s", "_", "d", "b", "_", "i", "n", "s", "t", "a", "n", "c", "e",
        "\"", " ", "\"", "d", "\"", " ", "{", "\n">> (* resource \"aws_db_instance\" \"d\" {\n *),
     <<"n", "a", "m", "e", " ", "=", " ", "\"", "w", "e", "b", "\"",
         "\n">> (* name = \"web\"\n *), <<"t", "a", "g", "s", " ", "=", " ", "{", " ", "a", "p",
         "p", " ", "=", " ", "\"", "a", "w", "s", "\"", " ", "}",
         "\n">> (* tags = { app = \"aws\" }\n *), <<"}", "\n">>}

OrderTexts == {Join(ls, <<>>) : ls \in SeqsUpTo(OrderLines, MaxOrderLines)}

OrderPatternLists ==
    {<<>>,
     <<ForbiddenPattern(<<"n", "o", " ", "a", "w", "s">> (* no aws *), <<"a", "w",
         "s">> (* aws *)), ForbiddenPattern(<<"n", "o", " ", "w", "e", "b">> (* no web *), <<"w",
         "e", "b">> (* web *))>>,
     <<ForbiddenPattern(<<"n", "o", " ", "w", "e", "b">> (* no web *), <<"w", "e",
         "b">> (* web *)), ForbiddenPattern(<<"n", "o", " ", "a", "w", "s">> (* no aws *), <<"a",
         "w", "s">> (* aws *))>>,
     <<ForbiddenPattern(<<"n", "o", " ", "e">> (* no e *), <<"e", "*",
         "b">> (* e*b *)), ForbiddenPattern(<<"b", "a", "d">> (* bad *), <<"(", "a">>),
       ForbiddenPattern(<<"n", "o", " ", "a", "w", "s">> (* no aws *), <<"a", "w",
           "s">> (* aws *))>>}

OrderPolicies ==
    {Policy(format, <<<<"e", "n", "v">> (* env *), <<"a", "p",
        "p">> (* app *)>>, <<>>, patterns, security[1], security[2]) :
        format \in {<<>>, StdFormat},
        patterns \in OrderPatternLists,
        security \in {<<NoS3, NoRDS>>,
                      <<RoundTripS3, [present |-> TRUE, storage_encrypted |-> Bool(TRUE),
                                      backup_retention_period |-> Num(7)]>>}}

InitOrder ==
    /\ pc = "ready"
    /\ config \in OrderPolicies
    /\ code \in OrderTexts
    /\ params = NoParams
    /\ result = NoResult
    /\ files = <<>>
    /\ request = NoRequest
    /\ transport = <<>>

NextOrder == Validate

SpecOrder == InitOrder /\ [][NextOrder]_vars

(***************************************************************************)
(* Properties of the order of violations (SpecOrder).                      *)
(***************************************************************************)

\* The place of a rule in the fixed order of checks.
CheckRank(ruleId) ==
    CASE ruleId \in {"missing_tags_block", "required_tag_missing"} -> 1
      [] ruleId = "forbidden_pattern" -> 2
      [] ruleId = "s3_security_default" -> 3
      [] ruleId = "rds_security_default" -> 4
      [] ruleId = "naming_convention" -> 5

\* The start indices of the successive matches of a pattern from index from
\* on, in increasing order.
RECURSIVE MatchStarts(_, _, _)
MatchStarts(atoms, s, from) ==
    LET m == Exec(atoms, s, from) IN
    IF m = <<>> THEN <<>>
    ELSE <<m[1].index>>
             \o MatchStarts(atoms, s,
                    IF m[1].end = m[1].index THEN m[1].end + 1 ELSE m[1].end)

\* Description and line of every match, pattern after pattern in the order
\* of declaration from patterns[k] on, and by increasing position within a
\* pattern.
RECURSIVE ByPatternThenPosition(_, _, _)
ByPatternThenPosition(patterns, k, s) ==
    IF k > Len(patterns) THEN <<>>
    ELSE (IF Compile(patterns[k].match) = <<>> THEN <<>>
          ELSE LET starts == MatchStarts(Compile(patterns[k].match)[1], s, 0)
               IN  [i \in 1..Len(starts) |->
                       <<patterns[k].description, <<getLineNumber(s, starts[i])>>>>])
             \o ByPatternThenPosition(patterns, k + 1, s)

\* C13: the violations of a returned result follow the order of the checks
\* (required tags, forbidden patterns, S3 defaults, RDS defaults, naming);
\* the forbidden_pattern violations are those of the first declared pattern,
\* then of the second, and so on, each pattern's by increasing position of
\* the match in the text.
C13_ViolationOrder ==
    Returned =>
        /\ \A i, j \in 1..Len(result.violations) :
              i < j => CheckRank(result.violations[i].ruleId)
                           <= CheckRank(result.violations[j].ruleId)
        /\ LET forbidden == SelectSeq(result.violations,
                                      LAMBDA v : v.ruleId = "forbidden_pattern")
           IN  [k \in 1..Len(forbidden) |-> <<forbidden[k].message, forbidden[k].line>>]
                   = ByPatternThenPosition(config.forbidden_patterns, 1, code)

\* A result with violations of all five kinds, where the first declared
\* pattern matches on two lines and the second on a line before the last
\* of them.
C13_Witness ==
    /\ Returned
    /\ \A r \in 1..5 : \E k \in 1..Len(result.violations) :
          CheckRank(result.violations[k].ruleId) = r
    /\ Len(config.forbidden_patterns) = 2
    /\ \E i, j, k \in WithRule("forbidden_pattern") :
          /\ i < j /\ j < k
          /\ result.violations[i].message = result.violations[j].message
          /\ result.violations[k].message # result.violations[j].message
          /\ result.violations[i].line[1] < result.violations[j].line[1]
          /\ result.violations[k].line[1] < result.violations[j].line[1]

(***************************************************************************)
(* SpecS3: validateSnippet on texts put together from declarations and     *)
(* markers of the S3 settings, against policies that enable, disable or    *)
(* leave unset each setting.                                               *)
(***************************************************************************)

MaxS3Fragments == 2

S3Fragments ==
    {<<"r", "e", "s", "o", "u", "r", "c", "e", " ", "\"", "a", "w", "s", "_", "s", "3", "_", "b",
        "u", "c", "k", "e", "t", "\"", " ", "\"", "b", "\"", " ", "{",
        "\n">> (* resource \"aws_s3_bucket\" \"b\" {\n *), <<"R", "E", "S", "O", "U", "R", "C",
        "E", " ", " ", "\"", "A", "W", "S", "_", "S", "3", "_", "B", "u", "c", "k", "e", "t", "\"",
        " ", "\"", "b", "\"", " ", "{", "\n">> (* RESOURCE  \"AWS_S3_Bucket\" \"b\" {\n *),
     <<"r", "e", "s", "o", "u", "r", "c", "e", " ", "\"", "a", "w", "s", "_", "s", "3", "_", "b",
         "u", "c", "k", "e", "t", "_", "p", "o", "l", "i", "c", "y", "\"", " ", "\"", "p", "\"",
         " ", "{", "\n">> (* resource \"aws_s3_bucket_policy\" \"p\" {\n *), <<"r", "e", "s", "o",
         "u", "r", "c", "e", "\"", "a", "w", "s", "_", "s", "3", "_", "b", "u", "c", "k", "e", "t",
         "\"", "\n">> (* resource\"aws_s3_bucket\"\n *),
     <<"b", "l", "o", "c", "k", "_", "p", "u", "b", "l", "i", "c", "_", "a", "c", "l", "s", " ",
         "=", " ", "t", "r", "u", "e", "\n">> (* block_public_acls = true\n *), <<"b", "l", "o",
         "c", "k", "_", "p", "u", "b", "l", "i", "c", "_", "p", "o", "l", "i", "c", "y", "=", "T",
         "R", "U", "E", "\n">> (* block_public_policy=TRUE\n *),
     <<"b", "l", "o", "c", "k", "_", "p", "u", "b", "l", "i", "c", "_", "a", "c", "l", "s", " ",
         "=", " ", "f", "a", "l", "s", "e", "\n">> (* block_public_acls = false\n *), <<"v", "e",
         "r", "s", "i", "o", "n", "i", "n", "g", " ", "{", "\n">> (* versioning {\n *), <<"v", "e",
         "r", "s", "i", "o", "n", "i", "n", "g", "_", "c", "o", "n", "f", "i", "g", "u", "r", "a",
         "t", "i", "o", "n", " ", "{", "\n">> (* versioning_configuration {\n *),
     <<"#", " ", "e", "n", "c", "r", "y", "p", "t", "i", "o", "n", "\n", "v", "e", "r", "s", "i",
         "o", "n", "i", "n", "g", " ", "=", " ", "x", "\n", "b", "l", "o", "c", "k", "_", "p", "u",
         "b", "l", "i", "c", "_", "a", "c", "l", "s", " ", "=", "\n", " ", "t", "r", "u", "e",
         "\n", "b", "l", "o", "c", "k", "_", "p", "u", "b", "l", "i", "c", "_", "p", "o", "l", "i",
         "c", "y", " ", "=", " ", "t", "r", "u", "e",
         "\n">> (* # encryption\nversioning = x\nblock_public_acls =\n true\nblock_public_policy = true\n *)}

S3Texts == {Join(fs, <<>>) : fs \in SeqsUpTo(S3Fragments, MaxS3Fragments)}

S3Entries ==
    {[present |-> TRUE, block_public_acls |-> acls, block_public_policy |-> policy,
      versioning |-> versioning, encryption |-> encryption] :
        acls \in {Undefined, Bool(TRUE), Bool(FALSE)},
        policy \in {Undefined, Bool(TRUE)},
        versioning \in {Undefined, Bool(TRUE)},
        encryption \in {Undefined, Str(<<"a", "w", "s", ":", "k", "m",
            "s">> (* aws:kms *)), Str(<<>>)}}

S3Policies == {Policy(<<>>, <<>>, <<>>, <<>>, s3, NoRDS) : s3 \in {NoS3} \cup S3Entries}

InitS3 ==
    /\ pc = "ready"
    /\ config \in S3Policies
    /\ code \in S3Texts
    /\ params = NoParams
    /\ result = NoResult
    /\ files = <<>>
    /\ request = NoRequest
    /\ transport = <<>>

NextS3 == Validate

SpecS3 == InitS3 /\ [][NextS3]_vars

(***************************************************************************)
(* Properties of the S3 security defaults (SpecS3).                        *)
(***************************************************************************)

\* The positions from p to q - 1 of s hold only white space.
SpacesBetween(s, p, q) == \A k \in p..(q - 1) : IsSpace(s[k])

\* s holds a declaration of resource "aws_s3_bucket", in either case.
DeclaresS3Bucket(s) ==
    \E p \in 1..Len(s) :
        /\ LitAt(s, p, <<"r", "e", "s", "o", "u", "r", "c", "e">> (* resource *), TRUE)
        /\ \E q \in (p + 9)..Len(s) :
              SpacesBetween(s, p + 8, q) /\ LitAt(s, q, <<"\"", "a", "w", "s", "_", "s", "3", "_",
                  "b", "u", "c", "k", "e", "t", "\"">> (* \"aws_s3_bucket\" *), TRUE)

\* s holds key = true, in either case, with any white space around the =.
AssignsTrue(s, key) ==
    \E p \in 1..Len(s) :
        /\ LitAt(s, p, key, TRUE)
        /\ \E eq \in (p + Len(key))..Len(s) :
              /\ s[eq] = "="
              /\ SpacesBetween(s, p + Len(key), eq)
              /\ \E t \in (eq + 1)..Len(s) :
                    SpacesBetween(s, eq + 1, t) /\ LitAt(s, t, <<"t", "r", "u",
                        "e">> (* true *), TRUE)

\* The marker of an S3 setting occurs in s.
S3MarkerIn(s, setting) ==
    CASE setting = "block_public_acls" -> AssignsTrue(s, <<"b", "l", "o", "c", "k", "_", "p", "u",
        "b", "l", "i", "c", "_", "a", "c", "l", "s">> (* block_public_acls *))
      [] setting = "block_public_policy" -> AssignsTrue(s, <<"b", "l", "o", "c", "k", "_", "p",
          "u", "b", "l", "i", "c", "_", "p", "o", "l", "i", "c", "y">> (* block_public_policy *))
      [] setting = "versioning" ->
            \E p \in 1..Len(s) :
                /\ LitAt(s, p, <<"v", "e", "r", "s", "i", "o", "n", "i", "n",
                    "g">> (* versioning *), TRUE)
                /\ \E q \in (p + 10)..Len(s) :
                      SpacesBetween(s, p + 10, q) /\ s[q] \in {"=", "{"}
      [] setting = "encryption" ->
            \E p \in 1..Len(s) : LitAt(s, p, <<"e", "n", "c", "r", "y", "p", "t", "i", "o",
                "n">> (* encryption *), TRUE)

\* The policy enables the setting: true, or a string that is not empty.
Enabled(v) == (v.t = "boolean" /\ v.b) \/ (v.t = "string" /\ v.s # <<>>)

S3Settings == {"block_public_acls", "block_public_policy", "versioning", "encryption"}

\* C14: with an s3_bucket entry in the policy and a declaration of resource
\* "aws_s3_bucket" in the text, there are as many s3_security_default
\* violations as enabled settings whose marker does not occur in the text,
\* each of severity warn and without line; without the entry or without the
\* declaration there is none.
C14_S3SecurityDefaults ==
    Returned =>
        /\ \A k \in WithRule("s3_security_default") :
              /\ result.violations[k].severity = "warn"
              /\ result.violations[k].line = <<>>
        /\ Cardinality(WithRule("s3_security_default")) =
              IF config.s3_bucket.present /\ DeclaresS3Bucket(code)
              THEN Cardinality({setting \in S3Settings :
                                   /\ Enabled(config.s3_bucket[setting])
                                   /\ ~S3MarkerIn(code, setting)})
              ELSE 0

\* A declaration in upper case, with a policy that enables all four
\* settings, and a text that holds the marker of one of them: three
\* violations.
C14_Witness ==
    /\ Returned
    /\ config.s3_bucket.present
    /\ \A setting \in S3Settings : Enabled(config.s3_bucket[setting])
    /\ LitAt(code, 1, <<"R", "E", "S", "O", "U", "R", "C", "E">> (* RESOURCE *), FALSE)
    /\ S3MarkerIn(code, "block_public_policy")
    /\ Cardinality(WithRule("s3_security_default")) = 3

(***************************************************************************)
(* SpecNaming: validateSnippet on texts put together from name             *)
(* assignments, against naming formats of zero to four placeholders.       *)
(***************************************************************************)

MaxNameFragments == 2

NameFragments ==
    {<<"n", "a", "m", "e", " ", "=", " ", "\"", "w", "e", "b", "\"",
        "\n">> (* name = \"web\"\n *), <<"n", "a", "m", "e", " ", "=", " ", "\"", "\"",
        "\n">> (* name = \"\"\n *), <<"n", "a", "m", "e", "=", "\"", "a", "-", "b", "\"",
        "\n">> (* name=\"a-b\"\n *), <<"n", "a", "m", "e", " ", "=", " ", "\"", "a", "-", "b", "-",
        "c", "\"", "\n">> (* name = \"a-b-c\"\n *),
     <<"n", "a", "m", "e", " ", "=", " ", "\"", "$", "{", "v", "a", "r", ".", "x", "}", "\"",
         "\n">> (* name = \"${var.x}\"\n *), <<"n", "a", "m", "e", " ", "=", " ", "\"", "v", "a",
         "r", ".", "x", "\"", "\n">> (* name = \"var.x\"\n *), <<"n", "a", "m", "e", " ", "=", " ",
         "w", "e", "b", "\n">> (* name = web\n *),
     <<" ", " ", "b", "u", "c", "k", "e", "t", "_", "n", "a", "m", "e", " ", "=", " ", "\"", "x",
         "-", "y", "\"", " ", "n", "a", "m", "e", " ", "=", " ", "\"", "z", "\"",
         "\n">> (*   bucket_name = \"x-y\" name = \"z\"\n *)}

NameTexts == {Join(fs, <<>>) : fs \in SeqsUpTo(NameFragments, MaxNameFragments)}

NamingPolicies ==
    {Policy(format, <<>>, <<>>, <<>>, NoS3, NoRDS) :
        format \in {<<>>, <<"<", "e", "n", "v", ">">> (* <env> *), <<"<", "e", "n", "v", ">", "-",
            "<", "a", "p", "p", ">">> (* <env>-<app> *), <<"<", "a", ">", "-", "<", "b", ">", "-",
            "<", "c", ">">> (* <a>-<b>-<c> *), StdFormat}}

InitNaming ==
    /\ pc = "ready"
    /\ config \in NamingPolicies
    /\ code \in NameTexts
    /\ params = NoParams
    /\ result = NoResult
    /\ files = <<>>
    /\ request = NoRequest
    /\ transport = <<>>

NextNaming == Validate

SpecNaming == InitNaming /\ [][NextNaming]_vars

(***************************************************************************)
(* Properties of the naming check (SpecNaming).                            *)
(***************************************************************************)

\* The assignments name = "<value>" of s: where each begins (as an index)
\* and its value, the characters between the two double quotes.
NameAssignments(s) ==
    UNION {{[index |-> p - 1, value |-> SubSeq(s, open + 1, close - 1)] :
               close \in {c \in (open + 1)..Len(s) :
                             \A k \in (open + 1)..c : s[k] = "\"" <=> k = c}} :
           <<p, open>> \in
               {t \in {q \in 1..Len(s) : LitAt(s, q, <<"n", "a", "m", "e">> (* name *), FALSE)}
                         \X {q \in 1..Len(s) : s[q] = "\""} :
                   \E eq \in (t[1] + 4)..(t[2] - 1) :
                       /\ s[eq] = "="
                       /\ SpacesBetween(s, t[1] + 4, eq)
                       /\ SpacesBetween(s, eq + 1, t[2])}}

\* The value is literal: it begins neither with ${ nor with var.
IsLiteral(value) == ~LitAt(value, 1, <<"$", "{">>, FALSE) /\ ~LitAt(value, 1, <<"v", "a", "r",
    ".">> (* var. *), FALSE)

\* The parts of value.split('-').
PartCount(value) == CountChar(value, "-") + 1

\* The assignments of s with a literal value of fewer than n parts.
Offending(s, n) ==
    {a \in NameAssignments(s) : IsLiteral(a.value) /\ PartCount(a.value) < n}

\* The members of a set of assignments, in the order of the text.
RECURSIVE InTextOrder(_)
InTextOrder(as) ==
    IF as = {} THEN <<>>
    ELSE LET first == CHOOSE a \in as : \A b \in as : a.index <= b.index
         IN  <<first>> \o InTextOrder(as \ {first})

\* C15: with a naming format of N >= 2 placeholders there is one info
\* naming_convention violation for each assignment name = "<value>" whose
\* value is literal and has fewer than N parts, at its line, naming the
\* value and stating "expected N+ parts, got K"; there is none for other
\* names, and none when the format has fewer than two placeholders.
C15_NamingConvention ==
    Returned =>
        LET N == CountPlaceholders(config.resource_format, 1)
            expected == IF N >= 2 THEN InTextOrder(Offending(code, N)) ELSE <<>>
            naming == SelectSeq(result.violations,
                                LAMBDA v : v.ruleId = "naming_convention")
        IN  /\ Len(naming) = Len(expected)
            /\ \A k \in 1..Len(naming) :
                  /\ naming[k].severity = "info"
                  /\ naming[k].line = <<getLineNumber(code, expected[k].index)>>
                  /\ FindLit(naming[k].message, 1,
                             <<"\"">> \o expected[k].value \o <<"\"">>, FALSE) # 0
                  /\ FindLit(naming[k].suggestion, 1,
                             <<"(", "e", "x", "p", "e", "c", "t", "e", "d",
                                 " ">> (* (expected  *) \o NatToString(N) \o <<"+", " ", "p", "a",
                                 "r", "t", "s", ",", " ", "g", "o", "t", " ">> (* + parts, got  *)
                                 \o NatToString(PartCount(expected[k].value)) \o <<")">>,
                             FALSE) # 0

(***************************************************************************)
(* SpecTagSynthesis: generateResource on default tags and extra tags of at *)
(* most MaxTags keys each, drawn from names and from integer-like keys.    *)
(***************************************************************************)

MaxTags == 2

TagKeys == {<<"e", "n", "v">> (* env *), <<"t", "e", "a", "m">> (* team *), <<"7">>, <<"1", "0">>}

\* The objects of at most MaxTags keys, each key with the given value, in
\* every order of their keys.
TagObjects(value) ==
    {[k \in 1..Len(keys) |-> <<keys[k], value>>] :
        keys \in {ks \in SeqsUpTo(TagKeys, MaxTags) :
                     \A i, j \in 1..Len(ks) : i # j => ks[i] # ks[j]}}

TagSynthesisPolicies ==
    {Policy(<<>>, <<>>, defaults, <<>>, NoS3, NoRDS) : defaults \in TagObjects(<<"d">>)}

TagSynthesisRequests ==
    {[resourceType |-> t, env |-> <<"p", "r", "o", "d">> (* prod *), service |-> <<"a", "n", "a",
        "l", "y", "t", "i", "c", "s">> (* analytics *), purpose |-> <<>>,
      extraTags |-> x] :
        t \in {<<"a", "w", "s", "_", "s", "3", "_", "b", "u", "c", "k", "e",
            "t">> (* aws_s3_bucket *), <<"a", "w", "s", "_", "d", "b", "_", "i", "n", "s", "t",
            "a", "n", "c", "e">> (* aws_db_instance *), <<"a", "w", "s", "_", "i", "n", "s", "t",
            "a", "n", "c", "e">> (* aws_instance *)},
        x \in TagObjects(<<"x">>)}

InitTagSynthesis ==
    /\ pc = "ready"
    /\ config \in TagSynthesisPolicies
    /\ code = <<>>
    /\ params \in TagSynthesisRequests
    /\ result = NoResult
    /\ files = <<>>
    /\ request = NoRequest
    /\ transport = <<>>

NextTagSynthesis == Generate

SpecTagSynthesis == InitTagSynthesis /\ [][NextTagSynthesis]_vars

(***************************************************************************)
(* Properties of the tag synthesis (SpecTagSynthesis).                     *)
(***************************************************************************)

\* obj has the key; the value it has for it.
HasKey(obj, key) == \E k \in 1..Len(obj) : obj[k][1] = key
ValueOf(obj, key) == obj[CHOOSE k \in 1..Len(obj) : obj[k][1] = key][2]

\* The default tags in policy order, each with the value of the extra tags
\* where these hold the key, then the extra tags of other keys in request
\* order.
MergedTags(defaults, extra) ==
    [k \in 1..Len(defaults) |->
        <<defaults[k][1],
          IF HasKey(extra, defaults[k][1]) THEN ValueOf(extra, defaults[k][1])
          ELSE defaults[k][2]>>]
      \o SelectSeq(extra, LAMBDA e : ~HasKey(defaults, e[1]))

\* C16: the tag block of the generated text lists each key of the default
\* and extra tags once, the default keys first in policy order, then the
\* other extra keys in request order, with the extra value where a key is in
\* both; integer-like keys included.
C16_TagSynthesis ==
    (pc = "generated" /\ MergedTags(config.defaults, params.extraTags) # <<>>)
    => LET merged == MergedTags(config.defaults, params.extraTags)
       IN  FindLit(result.code, 1,
                   <<" ", " ", "t", "a", "g", "s", " ", "=", " ", "{", "\n">> (*   tags = {\n *)
                       \o Join([k \in 1..Len(merged) |->
                                   <<" ", " ", " ", " ">> (*      *) \o merged[k][1] \o <<" ", "=",
                                       " ", "\"">> (*  = \" *) \o merged[k][2]
                                       \o <<"\"">>],
                               <<"\n">>)
                       \o <<"\n", " ", " ", "}">> (* \n  } *),
                   FALSE) # 0

(***************************************************************************)
(* SpecRDS: generateResource for aws_db_instance against policies that     *)
(* set, set to false or 0, or leave unset the two RDS settings.            *)
(***************************************************************************)

RDSEntries ==
    {[present |-> TRUE, storage_encrypted |-> encrypted,
      backup_retention_period |-> retention] :
        encrypted \in {Undefined, Bool(TRUE), Bool(FALSE)},
        retention \in {Undefined, Num(0), Num(7), Num(14)}}

RDSPolicies ==
    {Policy(format, <<>>, <<>>, <<>>, NoS3, rds) :
        format \in {<<>>, StdFormat}, rds \in {NoRDS} \cup RDSEntries}

RDSRequests ==
    {[resourceType |-> <<"a", "w", "s", "_", "d", "b", "_", "i", "n", "s", "t", "a", "n", "c",
        "e">> (* aws_db_instance *), env |-> e, service |-> <<"a", "n", "a", "l", "y", "t", "i",
        "c", "s">> (* analytics *),
      purpose |-> u, extraTags |-> x] :
        e \in {<<"p", "r", "o", "d">> (* prod *), <<"q", "a">>},
        u \in {<<>>, <<"l", "o", "g", "s">> (* logs *)},
        x \in {<<>>, <<<<<<"t", "e", "a", "m">> (* team *), <<"d", "a", "t", "a">> (* data *)>>>>}}

InitRDS ==
    /\ pc = "ready"
    /\ config \in RDSPolicies
    /\ code = <<>>
    /\ params \in RDSRequests
    /\ result = NoResult
    /\ files = <<>>
    /\ request = NoRequest
    /\ transport = <<>>

NextRDS == Generate

SpecRDS == InitRDS /\ [][NextRDS]_vars

(***************************************************************************)
(* Properties of the RDS generation (SpecRDS).                             *)
(***************************************************************************)

\* The value of a setting, or the fallback when the policy does not set it.
SetOr(v, fallback) == IF v.t = "undefined" THEN fallback ELSE v

\* C17: the text generated for aws_db_instance sets storage_encrypted and
\* backup_retention_period to the values of the policy's rds entry where it
\* sets them, false and 0 included, and to false and 7 where it does not.
C17_RDSDefaults ==
    (pc = "generated" /\ params.resourceType = <<"a", "w", "s", "_", "d", "b", "_", "i", "n", "s",
        "t", "a", "n", "c", "e">> (* aws_db_instance *))
    => /\ FindLit(result.code, 1,
                  <<"\n", " ", " ", "s", "t", "o", "r", "a", "g", "e", "_", "e", "n", "c", "r",
                      "y", "p", "t", "e", "d", " ", "=", " ">> (* \n  storage_encrypted =  *)
                      \o TemplateString(SetOr(config.rds.storage_encrypted, Bool(FALSE)))
                      \o <<"\n">>,
                  FALSE) # 0
       /\ FindLit(result.code, 1,
                  <<"\n", " ", " ", "b", "a", "c", "k", "u", "p", "_", "r", "e", "t", "e", "n",
                      "t", "i", "o", "n", "_", "p", "e", "r", "i", "o", "d", " ", "=",
                      " ">> (* \n  backup_retention_period =  *)
                      \o TemplateString(SetOr(config.rds.backup_retention_period, Num(7)))
                      \o <<"\n">>,
                  FALSE) # 0

(***************************************************************************)
(* The server: main loads the policy and connects the transport; the       *)
(* tools/call handler answers one request at a time (the handler holds no  *)
(* await, so it runs to its return before the next request is taken).      *)
(***************************************************************************)

\* A candidate policy file.  path is <<>> for TERRAFORM_STYLE_PATH when the
\* variable is not set; document is what readFileSync and yaml.load make of
\* the file: t = "throws" when one of them throws, else the loaded value
\* (t = "undefined" for an empty document, "string" for a scalar, "object").
File(path, exists, document) == [path |-> path, exists |-> exists, document |-> document]
Document(t, value, message) == [t |-> t, value |-> value, message |-> message]

loadConfig(fs) ==
    LET configPaths == SelectSeq(fs, LAMBDA f : f.path # <<>>)
        found == Leftmost({k \in 1..Len(configPaths) : configPaths[k].exists})
    IN  IF found = 0
        THEN [kind |-> "threw",
              message |-> <<"N", "o", " ", "t", "e", "r", "r", "a", "f", "o", "r", "m", "-", "s",
                  "t", "y", "l", "e", ".", "y", "a", "m", "l", " ", "f", "o", "u", "n", "d", ".",
                  " ", "P", "l", "e", "a", "s", "e", " ", "c", "r", "e", "a", "t", "e", " ", "o",
                  "n", "e", " ", "i", "n", " ", "y", "o", "u", "r", " ", "p", "r", "o", "j", "e",
                  "c", "t", " ", "r", "o", "o", "t", " ", "o", "r", " ", "s", "e", "t", " ", "T",
                  "E", "R", "R", "A", "F", "O", "R", "M", "_", "S", "T", "Y", "L", "E", "_", "P",
                  "A", "T", "H", " ", "e", "n", "v", " ", "v", "a", "r",
                  ".">> (* No terraform-style.yaml found. Please create one in your project root or set TERRAFORM_STYLE_PATH env var. *)]
        ELSE LET configPath == configPaths[found].path
                 document == configPaths[found].document
                 failed == <<"F", "a", "i", "l", "e", "d", " ", "t", "o", " ", "l", "o", "a", "d",
                     " ", "c", "o", "n", "f", "i", "g", " ", "f", "r", "o", "m",
                     " ">> (* Failed to load config from  *) \o configPath \o <<":", " ">>
             IN  IF document.t = "throws"
                 THEN [kind |-> "threw", message |-> failed \o document.message]
                 ELSE IF document.t # "object"
                 THEN [kind |-> "threw",
                       message |-> failed \o <<"I", "n", "v", "a", "l", "i", "d", " ", "c", "o",
                           "n", "f", "i", "g", " ", "f", "o", "r", "m", "a", "t", " ", "i", "n",
                           " ">> (* Invalid config format in  *) \o configPath]
                 ELSE [kind |-> "returned", value |-> document.value]

\* String.prototype.toLowerCase and String.prototype.includes.
toLowerCase(s) == [k \in 1..Len(s) |-> Fold(s[k])]
includes(s, lit) == FindLit(s, 1, lit, FALSE) # 0

listExamples(cfg, resourceType, search) ==
    LET entries == Entries(cfg.examples)
        results == [k \in 1..Len(entries) |->
                       [name |-> entries[k][1], code |-> entries[k][2]]]
        byType ==
            IF resourceType # <<>>
            THEN SelectSeq(results,
                     LAMBDA ex : includes(toLowerCase(ex.name), toLowerCase(resourceType)))
            ELSE results
    IN  IF search # <<>>
        THEN SelectSeq(byType,
                 LAMBDA ex : \/ includes(toLowerCase(ex.name), toLowerCase(search))
                             \/ includes(toLowerCase(ex.code), toLowerCase(search)))
        ELSE byType

\* What the handler returns.  text stands for the JSON text by the value
\* that JSON.stringify is given; isError is FALSE where the source leaves
\* the field out.
TextResult(value) == [kind |-> "returned", isError |-> FALSE, text |-> value]
ErrorResult(errorMessage) ==
    [kind |-> "returned", isError |-> TRUE, text |-> [error |-> errorMessage]]
Thrown(message) == [kind |-> "threw", isError |-> FALSE, text |-> [error |-> message]]
NeverReturns == [kind |-> "hang", isError |-> FALSE, text |-> <<>>]

\* JSON.stringify(result) of a validation that returned.
Validated(validation) ==
    IF validation.kind = "hang" THEN NeverReturns
    ELSE TextResult([valid |-> validation.valid, violations |-> validation.violations])

\* The try block of the handler: the result it returns, or what it throws.
CallTool(req, cfg) ==
    LET args == req.arguments
    IN  CASE req.name = <<"g", "e", "t", "_", "s", "t", "y", "l", "e", "_", "g", "u", "i", "d",
        "e">> (* get_style_guide *) -> TextResult(cfg)
          [] req.name = <<"l", "i", "s", "t", "_", "e", "x", "a", "m", "p", "l", "e",
              "s">> (* list_examples *) ->
                TextResult([examples |-> listExamples(cfg, args.resourceType, args.search)])
          [] req.name = <<"v", "a", "l", "i", "d", "a", "t", "e", "_", "s", "n", "i", "p", "p",
              "e", "t">> (* validate_snippet *) ->
                IF args.code = <<>> THEN Thrown(<<"c", "o", "d", "e", " ", "p", "a", "r", "a", "m",
                    "e", "t", "e", "r", " ", "i", "s", " ", "r", "e", "q", "u", "i", "r", "e",
                    "d">> (* code parameter is required *))
                ELSE Validated(validateSnippet(args.code, cfg))
          [] req.name = <<"g", "e", "n", "e", "r", "a", "t", "e", "_", "r", "e", "s", "o", "u",
              "r", "c", "e">> (* generate_resource *) ->
                IF args.resourceType = <<>> \/ args.env = <<>> \/ args.service = <<>>
                THEN Thrown(<<"r", "e", "s", "o", "u", "r", "c", "e", "T", "y", "p", "e", ",", " ",
                    "e", "n", "v", ",", " ", "a", "n", "d", " ", "s", "e", "r", "v", "i", "c", "e",
                    " ", "a", "r", "e", " ", "r", "e", "q", "u", "i", "r", "e",
                    "d">> (* resourceType, env, and service are required *))
                ELSE TextResult([code |->
                         generateResource([resourceType |-> args.resourceType,
                                           env |-> args.env, service |-> args.service,
                                           purpose |-> args.purpose,
                                           extraTags |-> args.extraTags], cfg)])
          [] OTHER -> Thrown(<<"U", "n", "k", "n", "o", "w", "n", " ", "t", "o", "o", "l", ":",
              " ">> (* Unknown tool:  *) \o req.name)

\* catch (error): what the try block throws is returned as an error result.
Catch(outcome) ==
    IF outcome.kind = "threw" THEN ErrorResult(outcome.text.error) ELSE outcome

\* A variant of the handler without the catch: what is thrown escapes.
CallToolRequestHandler_Uncaught(req, cfg) == CallTool(req, cfg)

CallToolRequestHandler(req, cfg) == Catch(CallTool(req, cfg))

NotLoaded == Undefined

\* A variant of main that connects the transport when loadConfig threw.
main_ConnectAnyway ==
    /\ pc = "start"
    /\ pc' = "connected"
    /\ config' = IF loadConfig(files).kind = "threw" THEN config
                 ELSE loadConfig(files).value
    /\ UNCHANGED <<code, params, result, files, request, transport>>

\* main: the policy is loaded and the transport connected, or the process
\* exits with status 1.
main ==
    /\ pc = "start"
    /\ IF loadConfig(files).kind = "threw"
       THEN pc' = "exited" /\ UNCHANGED config
       ELSE pc' = "connected" /\ config' = loadConfig(files).value
    /\ UNCHANGED <<code, params, result, files, request, transport>>

(***************************************************************************)
(* SpecServer: the server is started on one of the arrangements of policy  *)
(* files and answers at most MaxRequests requests drawn from ToolCalls.    *)
(***************************************************************************)

MaxRequests == 3

\* TerraformStyleConfig with its examples.
WithExamples(cfg, examples) ==
    [resource_format |-> cfg.resource_format, required_tags |-> cfg.required_tags,
     defaults |-> cfg.defaults, forbidden_patterns |-> cfg.forbidden_patterns,
     s3_bucket |-> cfg.s3_bucket, rds |-> cfg.rds, examples |-> examples]

ProjectPolicy ==
    WithExamples(
        Policy(StdFormat, <<<<"e", "n", "v">> (* env *)>>, <<<<<<"e", "n", "v">> (* env *), <<"d",
            "e", "v">> (* dev *)>>>>,
               <<[description |-> <<"n", "o", " ", "a", "b">> (* no ab *), match |-> <<"a",
                   "b">>]>>, RoundTripS3, NoRDS),
        <<<<<<"S", "3", "_", "B", "u", "c", "k", "e", "t">> (* S3_Bucket *), <<"r", "e", "s", "o",
            "u", "r", "c", "e", " ", "\"", "a", "w", "s", "_", "s", "3", "_", "b", "u", "c", "k",
            "e", "t", "\"", " ", "\"", "b", "\"", " ", "{",
            "}">> (* resource \"aws_s3_bucket\" \"b\" {} *)>>,
          <<<<"r", "d", "s">> (* rds *), <<"r", "e", "s", "o", "u", "r", "c", "e", " ", "\"", "a",
              "w", "s", "_", "d", "b", "_", "i", "n", "s", "t", "a", "n", "c", "e", "\"", " ",
              "\"", "d", "\"", " ", "{", "}">> (* resource \"aws_db_instance\" \"d\" {} *)>>>>)
\* A policy with a forbidden pattern that matches the empty string.
EnvPolicy ==
    WithExamples(
        Policy(<<>>, <<>>, <<>>, <<[description |-> <<"n", "o", " ",
            "a">> (* no a *), match |-> <<"a", "*">>]>>,
               NoS3, NoRDS),
        <<>>)
\* The document {}.
EmptyPolicy == WithExamples(Policy(<<>>, <<>>, <<>>, <<>>, NoS3, NoRDS), <<>>)

FileArrangements ==
    {<<env, File(<<"/", "w", "/", "t", "e", "r", "r", "a", "f", "o", "r", "m", "-", "s", "t", "y",
        "l", "e", ".", "y", "a", "m", "l">> (* /w/terraform-style.yaml *), yaml, Document("object",
        ProjectPolicy, <<>>)),
       File(<<"/", "w", "/", "t", "e", "r", "r", "a", "f", "o", "r", "m", "-", "s", "t", "y", "l",
           "e", ".", "y", "m", "l">> (* /w/terraform-style.yml *), yml, Document("object",
           EmptyPolicy, <<>>))>> :
        env \in {File(<<>>, FALSE, Document("undefined", Undefined, <<>>)),
                 File(<<"/", "e", ".", "y", "a", "m",
                     "l">> (* /e.yaml *), FALSE, Document("undefined", Undefined, <<>>)),
                 File(<<"/", "e", ".", "y", "a", "m", "l">> (* /e.yaml *), TRUE, Document("throws",
                     Undefined, <<"b", "a", "d", " ", "i", "n", "d", "e", "n", "t", "a", "t", "i",
                     "o", "n">> (* bad indentation *))),
                 File(<<"/", "e", ".", "y", "a", "m",
                     "l">> (* /e.yaml *), TRUE, Document("undefined", Undefined, <<>>)),
                 File(<<"/", "e", ".", "y", "a", "m", "l">> (* /e.yaml *), TRUE, Document("string",
                     Str(<<"x">>), <<>>)),
                 File(<<"/", "e", ".", "y", "a", "m", "l">> (* /e.yaml *), TRUE, Document("object",
                     EnvPolicy, <<>>))},
        yaml \in BOOLEAN, yml \in BOOLEAN}

ToolCall(name, arguments) == [name |-> name, arguments |-> arguments]

ToolCalls ==
    {ToolCall(<<"g", "e", "t", "_", "s", "t", "y", "l", "e", "_", "g", "u", "i", "d",
        "e">> (* get_style_guide *), NoArguments),
     ToolCall(<<"l", "i", "s", "t", "_", "e", "x", "a", "m", "p", "l", "e",
         "s">> (* list_examples *), NoArguments),
     ToolCall(<<"l", "i", "s", "t", "_", "e", "x", "a", "m", "p", "l", "e",
         "s">> (* list_examples *),
              Arguments(<<>>, <<>>, <<"s", "3">>, <<>>, <<>>, <<>>, <<>>, <<"B", "U", "C", "K",
                  "E", "T">> (* BUCKET *))),
     ToolCall(<<"v", "a", "l", "i", "d", "a", "t", "e", "_", "s", "n", "i", "p", "p", "e",
         "t">> (* validate_snippet *), NoArguments),
     ToolCall(<<"v", "a", "l", "i", "d", "a", "t", "e", "_", "s", "n", "i", "p", "p", "e",
         "t">> (* validate_snippet *),
              Arguments(<<>>, <<"m", "a", "i", "n", ".", "t",
                  "f">> (* main.tf *), <<>>, <<>>, <<>>, <<>>, <<>>, <<>>)),
     ToolCall(<<"v", "a", "l", "i", "d", "a", "t", "e", "_", "s", "n", "i", "p", "p", "e",
         "t">> (* validate_snippet *),
              Arguments(<<"n", "a", "m", "e", " ", "=", " ", "\"", "w", "e", "b", "\"", "\n", "a",
                  "b",
                  "\n">> (* name = \"web\"\nab\n *), <<>>, <<>>, <<>>, <<>>, <<>>, <<>>, <<>>)),
     ToolCall(<<"g", "e", "n", "e", "r", "a", "t", "e", "_", "r", "e", "s", "o", "u", "r", "c",
         "e">> (* generate_resource *),
              Arguments(<<>>, <<>>, <<>>, <<"p", "r", "o", "d">> (* prod *), <<"a", "n", "a", "l",
                  "y", "t", "i", "c", "s">> (* analytics *), <<>>, <<>>, <<>>)),
     ToolCall(<<"g", "e", "n", "e", "r", "a", "t", "e", "_", "r", "e", "s", "o", "u", "r", "c",
         "e">> (* generate_resource *),
              Arguments(<<>>, <<>>, <<"a", "w", "s", "_", "s", "3", "_", "b", "u", "c", "k", "e",
                  "t">> (* aws_s3_bucket *), <<>>, <<"a", "n", "a", "l", "y", "t", "i", "c",
                  "s">> (* analytics *), <<>>, <<>>, <<>>)),
     ToolCall(<<"g", "e", "n", "e", "r", "a", "t", "e", "_", "r", "e", "s", "o", "u", "r", "c",
         "e">> (* generate_resource *),
              Arguments(<<>>, <<>>, <<"a", "w", "s", "_", "s", "3", "_", "b", "u", "c", "k", "e",
                  "t">> (* aws_s3_bucket *), <<"p", "r", "o", "d">> (* prod *), <<>>, <<"l", "o",
                  "g", "s">> (* logs *), <<>>, <<>>)),
     ToolCall(<<"g", "e", "n", "e", "r", "a", "t", "e", "_", "r", "e", "s", "o", "u", "r", "c",
         "e">> (* generate_resource *),
              Arguments(<<>>, <<>>, <<"a", "w", "s", "_", "s", "3", "_", "b", "u", "c", "k", "e",
                  "t">> (* aws_s3_bucket *), <<"p", "r", "o", "d">> (* prod *), <<"a", "n", "a",
                  "l", "y", "t", "i", "c", "s">> (* analytics *), <<>>,
                        <<<<<<"t", "e", "a", "m">> (* team *), <<"d", "a", "t",
                            "a">> (* data *)>>>>, <<>>)),
     ToolCall(<<"d", "e", "l", "e", "t", "e", "_", "e", "v", "e", "r", "y", "t", "h", "i", "n",
         "g">> (* delete_everything *), NoArguments)}

\* A tools/call request arrives on the connected transport.
Receive ==
    /\ pc = "connected"
    /\ Len(transport) < MaxRequests
    /\ pc' = "handling"
    /\ request' \in ToolCalls
    /\ UNCHANGED <<config, code, params, result, files, transport>>

\* The handler runs on the request and its result is sent, or it never
\* returns and the process serves nothing further.
Respond ==
    /\ pc = "handling"
    /\ \E response \in {CallToolRequestHandler(request, config)} :
          IF response.kind = "hang"
          THEN pc' = "hung" /\ UNCHANGED <<request, transport>>
          ELSE /\ pc' = "connected"
               /\ request' = NoRequest
               /\ transport' = Append(transport, [request |-> request,
                                                  response |-> response])
    /\ UNCHANGED <<config, code, params, result, files>>

InitServer ==
    /\ pc = "start"
    /\ config = NotLoaded
    /\ code = <<>>
    /\ params = NoParams
    /\ result = NoResult
    /\ files \in FileArrangements
    /\ request = NoRequest
    /\ transport = <<>>

NextServer == main \/ Receive \/ Respond

SpecServer == InitServer /\ [][NextServer]_vars

(***************************************************************************)
(* Properties of the server (SpecServer).                                  *)
(***************************************************************************)

\* A request that lacks a required argument.
Failing(req) ==
    \/ req.name = <<"v", "a", "l", "i", "d", "a", "t", "e", "_", "s", "n", "i", "p", "p", "e",
        "t">> (* validate_snippet *) /\ req.arguments.code = <<>>
    \/ /\ req.name = <<"g", "e", "n", "e", "r", "a", "t", "e", "_", "r", "e", "s", "o", "u", "r",
        "c", "e">> (* generate_resource *)
       /\ \/ req.arguments.resourceType = <<>>
          \/ req.arguments.env = <<>>
          \/ req.arguments.service = <<>>

\* C11: a validate_snippet request without code, and a generate_resource
\* request that lacks resourceType, env or service, is answered by an error
\* result (isError with a message) and is not thrown; every other request
\* answered after any number of such requests gets the response that the
\* handler gives it on the policy loaded at startup, which is the response
\* it gets when the failing requests are not sent.
C11_FailingRequestIsolated ==
    \A k \in 1..Len(transport) :
        LET sent == transport[k]
        IN  IF Failing(sent.request)
            THEN /\ sent.response.kind = "returned"
                 /\ sent.response.isError
                 /\ sent.response.text.error # <<>>
            ELSE /\ loadConfig(files).kind = "returned"
                 /\ sent.response =
                        CallToolRequestHandler(sent.request, loadConfig(files).value)

\* Both kinds of failing request were answered, and then a generate_resource
\* request with all its arguments was answered with the generated text.
C11_Witness ==
    /\ Len(transport) = 3
    /\ transport[1].request.name = <<"v", "a", "l", "i", "d", "a", "t", "e", "_", "s", "n", "i",
        "p", "p", "e", "t">> (* validate_snippet *)
    /\ Failing(transport[1].request)
    /\ transport[2].request.name = <<"g", "e", "n", "e", "r", "a", "t", "e", "_", "r", "e", "s",
        "o", "u", "r", "c", "e">> (* generate_resource *)
    /\ Failing(transport[2].request)
    /\ transport[3].request.name = <<"g", "e", "n", "e", "r", "a", "t", "e", "_", "r", "e", "s",
        "o", "u", "r", "c", "e">> (* generate_resource *)
    /\ ~Failing(transport[3].request)
    /\ ~transport[3].response.isError
    /\ Len(transport[3].response.text.code) > 0

\* C12: while a request is being handled the policy was loaded without
\* failure and is the value loaded at startup; when loading fails the
\* process exits and no request is ever taken.
C12_PolicyLoadedAndUnchanged ==
    /\ pc \in {"handling", "hung"}
          => /\ loadConfig(files).kind = "returned"
             /\ config = loadConfig(files).value
    /\ loadConfig(files).kind = "threw"
          => /\ pc \in {"start", "exited"}
             /\ request = NoRequest
             /\ transport = <<>>
             /\ config = NotLoaded

\* A request is being handled after two other requests were answered, on
\* a policy found in the third candidate file.
C12_Witness ==
    /\ pc = "handling"
    /\ Len(transport) = 2
    /\ \E k \in 1..2 : ~transport[k].response.isError
    /\ \E k \in 1..2 : transport[k].response.isError
    /\ config = EmptyPolicy
    /\ files[1].path # <<>>

=============================================================================
